---- MODULE Spec2Model ----
(***************************************************************************)
(* Alpha Hunter: the notification gate and the seen-project store of       *)
(* src/alpha_aggregator.py (process_and_notify, _project_exists,           *)
(* _insert_project), driven by several cooperative scan jobs.              *)
(*                                                                         *)
(* Strings are sequences of one-character strings so that str.strip() is   *)
(* computed, not assumed.  " " stands for any whitespace character.        *)
(*                                                                         *)
(* process_and_notify (lines 392-453) carries two generations of its gate  *)
(* one after the other: the guards with the force_send / immediate_token   *)
(* exemptions (404-408) and then the older unconditional guards (411-415). *)
(* The model follows the statements in the order in which they stand.      *)
(* _insert_project is defined twice, with one dict argument (277-298) and  *)
(* with (project_name, score) (320-334); each call site is modelled by the *)
(* definition whose parameters it matches.                                 *)
(***************************************************************************)
EXTENDS Integers, Sequences, FiniteSets, TLC

(* ---------------------------- bounds ---------------------------------- *)
\* Number of calls of process_and_notify made in one behaviour; the clock
\* advances by one with every call, so this also bounds the timestamps.
MaxClock == 2

\* The scan jobs whose calls may overlap: two of the asyncio tasks that the
\* scheduler starts side by side (the other two run the same run_scan code).
Jobs == {"daily_scan", "mid_term_scan"}

(* ---------------------------- inputs ---------------------------------- *)
\* project strings handed to the gate: empty, blank, padded and plain names
ProjectInputs == { <<>>, <<" ">>, <<" ", "A">>, <<"B">> }
\* scores on both sides of the alert threshold
ScoreInputs == {7, 8}
\* action / investors / source of a candidate: a padded action, an investor
\* list with a blank entry, and no source
DetailInputs ==
  { [action |-> <<"J", " ">>, investors |-> << <<"P">>, <<" ">> >>, source |-> << >>] }

Candidates ==
  { [project |-> p, score |-> s, action |-> x.action, investors |-> x.investors,
     source |-> x.source, immediate_token |-> i, force_send |-> f] :
      p \in ProjectInputs, s \in ScoreInputs, x \in DetailInputs,
      i \in BOOLEAN, f \in BOOLEAN }

\* A nullable TEXT column: SQL NULL, or a value.
NULL == [null |-> TRUE, val |-> << >>]
Text(v) == [null |-> FALSE, val |-> v]

(* ---------------------------- str.strip ------------------------------- *)
RECURSIVE LStrip(_)
LStrip(s) == IF s = << >> THEN s
             ELSE IF Head(s) = " " THEN LStrip(Tail(s)) ELSE s

RECURSIVE RStrip(_)
RStrip(s) == IF s = << >> THEN s
             ELSE IF s[Len(s)] = " " THEN RStrip(SubSeq(s, 1, Len(s) - 1)) ELSE s

Strip(s) == RStrip(LStrip(s))

\* a string that is empty or whitespace only (stated without Strip)
IsBlank(s) == \A i \in 1..Len(s) : s[i] = " "

(* ---------------------------- seen_projects --------------------------- *)
\* The names that can become primary keys of seen_projects.
Names == { Strip(p) : p \in ProjectInputs } \ { << >> }

RowsOf(tbl, name) == { r \in tbl : r.project_name = name }

\* SELECT 1 FROM seen_projects WHERE project_name = ?
_project_exists_never(tbl, project_name) == FALSE
_project_exists(tbl, project_name) == \E r \in tbl : r.project_name = project_name

\* INSERT OR REPLACE on a table whose PRIMARY KEY is project_name: the rows
\* that conflict on the key are deleted, then the new row is inserted.
InsertPlain(tbl, row) == tbl \cup {row}
InsertOrReplace(tbl, row) ==
  { r \in tbl : r.project_name # row.project_name } \cup {row}

\* json.dumps([str(item) for item in investors_raw if str(item).strip()])
JsonOfInvestors(investors_raw) ==
  Text(SelectSeq(investors_raw, LAMBDA item : Strip(item) # << >>))

\* The six-column row _insert_project(project_data) writes.
FullRow(project_data, now_utc) ==
  [project_name |-> Strip(project_data.project),
   last_score   |-> project_data.score,
   timestamp    |-> now_utc,
   action       |-> IF Strip(project_data.action) = << >> THEN NULL
                    ELSE Text(Strip(project_data.action)),
   investors    |-> JsonOfInvestors(project_data.investors),
   source       |-> IF Strip(project_data.source) = << >> THEN NULL
                    ELSE Text(Strip(project_data.source))]

\* The row _insert_project(project_name, score) writes: the three columns it
\* names, the others take their default NULL.
ShortRow(project_name, score, now_utc) ==
  [project_name |-> project_name, last_score |-> score, timestamp |-> now_utc,
   action |-> NULL, investors |-> NULL, source |-> NULL]

\* _insert_project(project_data): a blank name is a no-op.
_insert_project_not_written(tbl, project_data, now_utc) == tbl
_insert_project(tbl, project_data, now_utc) ==
  IF Strip(project_data.project) = << >> THEN tbl
  ELSE InsertOrReplace(tbl, FullRow(project_data, now_utc))

\* _insert_project(project_name, score), the three-column definition.
_insert_project_short(tbl, project_name, score, now_utc) ==
  InsertOrReplace(tbl, ShortRow(project_name, score, now_utc))

(* ---------------------------- the gate -------------------------------- *)
\* The early returns of process_and_notify, in the order of the code:
\* blank name (397), seen and not forced (404), below threshold and neither
\* immediate nor forced (407), then again seen (411) and below threshold
\* (414) without exemptions.  "deliver" means the call goes on to deliver.
Gate_no_blank_check(name, score, immediate, force_send, tbl) ==
  IF _project_exists(tbl, name) /\ ~force_send THEN "seen"
  ELSE IF score < 8 /\ ~immediate /\ ~force_send THEN "low"
  ELSE IF _project_exists(tbl, name) THEN "seen_again"
  ELSE IF score < 8 THEN "low_again"
  ELSE "deliver"
Gate_no_seen_check(name, score, immediate, force_send, tbl) ==
  IF name = << >> THEN "blank"
  ELSE IF score < 8 /\ ~immediate /\ ~force_send THEN "low"
  ELSE IF score < 8 THEN "low_again"
  ELSE "deliver"
Gate_threshold_off_by_one(name, score, immediate, force_send, tbl) ==
  IF name = << >> THEN "blank"
  ELSE IF _project_exists(tbl, name) /\ ~force_send THEN "seen"
  ELSE IF score <= 8 /\ ~immediate /\ ~force_send THEN "low"
  ELSE IF _project_exists(tbl, name) THEN "seen_again"
  ELSE IF score <= 8 THEN "low_again"
  ELSE "deliver"
Gate(name, score, immediate, force_send, tbl) ==
  IF name = << >> THEN "blank"
  ELSE IF _project_exists(tbl, name) /\ ~force_send THEN "seen"
  ELSE IF score < 8 /\ ~immediate /\ ~force_send THEN "low"
  ELSE IF _project_exists(tbl, name) THEN "seen_again"
  ELSE IF score < 8 THEN "low_again"
  ELSE "deliver"

\* The preview branches (TELEGRAM_PREVIEW_ONLY, or no token / chat id):
\* print the message, then the two _insert_project calls, then return.
DeliverPreview_persist_first(tbl, project_data, name, score, now_utc) ==
  [events |-> <<"upsert", "upsert", "preview">>,
   table  |-> _insert_project_short(_insert_project(tbl, project_data, now_utc),
                                    name, score, now_utc),
   wrote  |-> <<FullRow(project_data, now_utc), ShortRow(name, score, now_utc)>>]
DeliverPreview(tbl, project_data, name, score, now_utc) ==
  [events |-> <<"preview", "upsert", "upsert">>,
   table  |-> _insert_project_short(_insert_project(tbl, project_data, now_utc),
                                    name, score, now_utc),
   wrote  |-> <<FullRow(project_data, now_utc), ShortRow(name, score, now_utc)>>]

\* process_and_notify from its entry to its first suspension point (the
\* awaited send) or to its return.  env is the configuration read from the
\* environment: preview_only, and bot = "none" (token or chat id missing),
\* "ok" (Bot constructed) or "raise" (constructing the Bot raises).
ProcessSync(tbl, env_, project_data, now_utc) ==
  LET name  == Strip(project_data.project)
      score == project_data.score
      g     == Gate(name, score, project_data.immediate_token,
                    project_data.force_send, tbl)
  IN  IF g # "deliver"
        THEN [next |-> "idle", events |-> << >>, table |-> tbl, wrote |-> << >>]
      ELSE IF env_.preview_only \/ env_.bot = "none"
        THEN [next |-> "idle"] @@ DeliverPreview(tbl, project_data, name, score, now_utc)
      ELSE IF env_.bot = "raise"
        THEN [next   |-> "idle",
              events |-> <<"subsystem_print", "upsert">>,
              table  |-> _insert_project(tbl, project_data, now_utc),
              wrote  |-> <<FullRow(project_data, now_utc)>>]
      ELSE [next |-> "send", events |-> <<"open", "send">>, table |-> tbl,
            wrote |-> << >>]

(* ---------------------------- state ----------------------------------- *)
VARIABLES
  table,      \* seen_projects: a set of rows
  clock,      \* the UTC clock read by datetime.now(timezone.utc)
  env,        \* TELEGRAM_PREVIEW_ONLY and the bot credentials
  pc,         \* pc[j]: where job j is inside process_and_notify
  cur,        \* cur[j]: the call job j is suspended in (NoCall when idle)
  last,       \* the call that returned most recently, and what it did
  plain,      \* plain[n]: calls and alert attempts of non-forced calls for n
  lastWrite,  \* lastWrite[n]: the row written last for name n in this run
  todo,       \* the daily reminder dispatch (task_manager.send_daily_todo)
  tasks,      \* the rows of the tasks table, in id order
  wall,       \* the wall clock of the task manager, in minutes
  tcall,      \* the task-store operation of the step just taken
  daily,      \* where run_daily_scheduler is
  inp,        \* the argument of the pure function under check
  out,        \* its result, once computed
  scan,       \* scan[j]: where job j is inside run_scan
  timers,     \* the call_later callbacks that are pending
  loop_time,  \* the event loop's time, in seconds
  sched,      \* the scheduler's startup state and its interval triggers
  execs       \* execs[job]: executions of the job started and finished

gateVars  == <<table, clock, env, pc, cur, last, plain, lastWrite>>
todoVars  == <<todo, tasks, wall, tcall, daily>>
fnVars    == <<inp, out>>
scanVars  == <<scan, timers>>
schedVars == <<sched, execs>>

vars == <<gateVars, todoVars, fnVars, scanVars, schedVars, loop_time>>

NoRow == [project_name |-> << >>, last_score |-> 0, timestamp |-> 0,
          action |-> NULL, investors |-> NULL, source |-> NULL]

NoData == [project |-> << >>, score |-> 0, action |-> << >>, investors |-> << >>,
           source |-> << >>, immediate_token |-> FALSE, force_send |-> FALSE]

\* status "none": no call yet.  entered: the clock when the call was made;
\* existed: whether the project's row was there when the call was made;
\* before / after: the table before and after the step in which the call
\* returned; events: what the call did, in order.
NoCall == [status |-> "none", data |-> NoData, name |-> << >>, entered |-> 0,
           existed |-> FALSE, before |-> {}, after |-> {}, events |-> << >>]

\* Store contents left by an earlier run: nothing, or a row for project A.
InitTables == { {}, {ShortRow(<<"A">>, 18, 0)} }

\* preview-only mode (in which the bot is never looked at), or one of the
\* three outcomes of _get_bot_and_chat_id
Envs == { [preview_only |-> TRUE, bot |-> "ok"] } \cup
        [preview_only : {FALSE}, bot : {"none", "ok", "raise"}]

AttemptEvents == {"preview", "subsystem_print", "send"}

\* number of alert attempts (a send, or a preview print) in an event list
AlertAttempts(events) ==
  Cardinality({ i \in 1..Len(events) : events[i] \in AttemptEvents })

Upserts(events) ==
  Cardinality({ i \in 1..Len(events) : events[i] = "upsert" })

\* lastWrite after the rows of wrote have been written in order
RECURSIVE Record(_, _)
Record(lw, wrote) ==
  IF wrote = << >> THEN lw
  ELSE Record([lw EXCEPT ![Head(wrote).project_name] = Head(wrote)], Tail(wrote))

\* The dispatch record: pc is where send_daily_todo is; status is "none",
\* "running", "returned" or "raised"; pending says that an exception is on
\* its way to the caller while the finally clause runs.
NoTodo == [pc |-> "idle", status |-> "none", events |-> << >>, pending |-> FALSE]

\* The components that a specification does not exercise stay as they are
\* before they are first used.
\* _seed_default_tasks on an empty table: ids 1, 2, 3, never completed
TaskNull == [null |-> TRUE, d |-> 0, m |-> 0]
TaskRow(id, project, description, frequency) ==
  [id |-> id, project_name |-> project, task_description |-> description,
   frequency_days |-> frequency, last_completed |-> TaskNull]
SeededTasks ==
  << TaskRow(1, "MetaMask", "Perform 1 Swap", 7),
     TaskRow(2, "Polymarket", "Place 1 Prediction", 1),
     TaskRow(3, "Aztec", "Privacy Transfer", 14) >>

NoTaskCall == [op |-> "none", arg |-> 0, at |-> 0, result |-> {}]
NoDaily == [pc |-> "off", now |-> 0, target |-> 0, dispatches |-> 0,
            woke_at |-> 0]

TodoAtRest  ==
  /\ todo = NoTodo /\ tasks = SeededTasks /\ wall = 0
  /\ tcall = NoTaskCall /\ daily = NoDaily
FnAtRest    == inp = [kind |-> "none"] /\ out = [kind |-> "none"]
NoScan ==
  [pc |-> "idle", run |-> 0, origin |-> "none", args |-> << >>,
   fetch |-> "none", items |-> << >>, k |-> 0, pending |-> {}, log |-> << >>,
   outcome |-> "none", failed_at |-> 0]
ScanAtRest  == scan = [j \in Jobs |-> NoScan] /\ timers = {}
\* the ids of the jobs main() registers
SchedJobs == {"daily_scan", "mid_term_scan", "weekly_research", "monthly_alpha"}
NoSched ==
  [phase |-> "boot", seeded |-> FALSE, started_at |-> 0,
   interval |-> [j \in SchedJobs |-> 0], next_fire |-> [j \in SchedJobs |-> 0],
   tasks |-> {}]
SchedAtRest == sched = NoSched /\ execs = [j \in SchedJobs |-> 0]

Init ==
  /\ TodoAtRest /\ FnAtRest /\ ScanAtRest /\ SchedAtRest /\ loop_time = 0
  /\ table \in InitTables
  /\ clock = 0
  /\ env \in Envs
  /\ pc = [j \in Jobs |-> "idle"]
  /\ cur = [j \in Jobs |-> NoCall]
  /\ last = NoCall
  /\ plain = [n \in Names |-> [calls |-> 0, alerts |-> 0]]
  /\ lastWrite = [n \in Names |-> NoRow]

(* ---------------------------- actions --------------------------------- *)
\* Job j calls process_and_notify(project_data); the call runs without
\* suspension to its return or to the awaited bot.send_message.
Call(j, project_data) ==
  /\ pc[j] = "idle"
  /\ clock < MaxClock
  /\ LET now  == clock + 1
         name == Strip(project_data.project)
         r    == ProcessSync(table, env, project_data, now)
         c    == [status  |-> IF r.next = "idle" THEN "returned" ELSE "running",
                  data    |-> project_data,
                  name    |-> name,
                  entered |-> now,
                  existed |-> RowsOf(table, name) # {},
                  before  |-> IF r.next = "idle" THEN table ELSE {},
                  after   |-> IF r.next = "idle" THEN r.table ELSE {},
                  events  |-> r.events]
     IN  /\ clock' = now
         /\ table' = r.table
         /\ pc' = [pc EXCEPT ![j] = r.next]
         /\ cur' = IF r.next = "idle" THEN cur ELSE [cur EXCEPT ![j] = c]
         /\ last' = IF r.next = "idle" THEN c ELSE last
         /\ plain' = IF name \in Names /\ ~project_data.force_send
                       THEN [plain EXCEPT ![name] =
                              [calls  |-> @.calls + 1,
                               alerts |-> @.alerts + AlertAttempts(r.events)]]
                       ELSE plain
         /\ lastWrite' = Record(lastWrite, r.wrote)
  /\ UNCHANGED <<env, todoVars, fnVars, scanVars, schedVars, loop_time>>

\* bot.send_message completes inside _safe_send_message: it returns, or it
\* raises and the message is printed as a preview; either way the call goes
\* on to the awaited session close.
SendDone_propagates(j, ok) ==
  /\ pc[j] = "send"
  /\ pc' = [pc EXCEPT ![j] = IF ok THEN "close" ELSE "idle"]
  /\ cur' = IF ok THEN [cur EXCEPT ![j].events = @ \o <<"send_ok">>]
                  ELSE [cur EXCEPT ![j] = NoCall]
  /\ last' = IF ok THEN last
                   ELSE [cur[j] EXCEPT !.status = "raised", !.before = table,
                                       !.after = table,
                                       !.events = @ \o <<"send_fail">>]
  /\ UNCHANGED <<table, clock, env, plain, lastWrite>>
  /\ UNCHANGED <<todoVars, fnVars, scanVars, schedVars, loop_time>>
SendDone(j, ok) ==
  /\ pc[j] = "send"
  /\ pc' = [pc EXCEPT ![j] = "close"]
  /\ cur' = [cur EXCEPT ![j].events =
                @ \o (IF ok THEN <<"send_ok">> ELSE <<"send_fail", "fallback_print">>)]
  /\ UNCHANGED <<table, clock, env, last, plain, lastWrite>>
  /\ UNCHANGED <<todoVars, fnVars, scanVars, schedVars, loop_time>>

\* bot.session.close() completes inside _safe_close_bot (a failure is only
\* logged); then _insert_project(project_data) runs and the call returns.
CloseDone(j, ok) ==
  /\ pc[j] = "close"
  /\ LET d   == cur[j].data
         tbl == _insert_project(table, d, clock)
     IN  /\ table' = tbl
         /\ last' = [cur[j] EXCEPT !.status = "returned",
                                   !.before = table,
                                   !.after  = tbl,
                                   !.events = @ \o <<(IF ok THEN "close" ELSE "close_fail"),
                                                     "upsert">>]
         /\ lastWrite' = Record(lastWrite, <<FullRow(d, clock)>>)
  /\ pc' = [pc EXCEPT ![j] = "idle"]
  /\ cur' = [cur EXCEPT ![j] = NoCall]
  /\ UNCHANGED <<clock, env, plain>>
  /\ UNCHANGED <<todoVars, fnVars, scanVars, schedVars, loop_time>>

Next ==
  \/ \E j \in Jobs, d \in Candidates : Call(j, d)
  \/ \E j \in Jobs, ok \in BOOLEAN : SendDone(j, ok)
  \/ \E j \in Jobs, ok \in BOOLEAN : CloseDone(j, ok)

Spec == Init /\ [][Next]_vars

\* The same program when calls never overlap: a call starts only when no
\* other call is in flight (one scan, which awaits each call in turn).
CallSeq(j, project_data) ==
  /\ \A k \in Jobs : pc[k] = "idle"
  /\ Call(j, project_data)

NextSeq ==
  \/ \E j \in Jobs, d \in Candidates : CallSeq(j, d)
  \/ \E j \in Jobs, ok \in BOOLEAN : SendDone(j, ok)
  \/ \E j \in Jobs, ok \in BOOLEAN : CloseDone(j, ok)

SeqSpec == Init /\ [][NextSeq]_vars

(* ---------------------------- task store ------------------------------ *)
\* Time is counted in minutes; timedelta(days=n) is n * DayMinutes.
DayMinutes == 24 * 60

\* datetime.isoformat() and datetime.fromisoformat(): the stored text names
\* the date and the time of day
IsoStamp(t) == [null |-> FALSE, d |-> t \div DayMinutes, m |-> t % DayMinutes]
FromIso(value) == value.d * DayMinutes + value.m

\* None for NULL (the stored texts are the ones mark_task_done wrote, which
\* fromisoformat accepts)
_parse_last_completed(value) ==
  IF value.null THEN [none |-> TRUE, t |-> 0]
  ELSE [none |-> FALSE, t |-> FromIso(value)]

\* lines 109-117: is the row appended to the pending list
Pending_inclusive(row, now) ==
  LET last_completed == _parse_last_completed(row.last_completed)
  IN  \/ last_completed.none
      \/ now - last_completed.t >= row.frequency_days * DayMinutes
Pending(row, now) ==
  LET last_completed == _parse_last_completed(row.last_completed)
  IN  \/ last_completed.none
      \/ now - last_completed.t > row.frequency_days * DayMinutes

\* the rows check_pending_tasks returns (ORDER BY project_name gives their
\* order in the message)
check_pending_tasks(tbl, now) ==
  { tbl[i] : i \in { k \in 1..Len(tbl) : Pending(tbl[k], now) } }

\* UPDATE tasks SET last_completed = ? WHERE id = ?
mark_task_done_every_row(tbl, task_id, now) ==
  [i \in 1..Len(tbl) |-> [tbl[i] EXCEPT !.last_completed = IsoStamp(now)]]
mark_task_done(tbl, task_id, now) ==
  [i \in 1..Len(tbl) |->
     IF tbl[i].id = task_id
       THEN [tbl[i] EXCEPT !.last_completed = IsoStamp(now)]
       ELSE tbl[i]]

\* INSERT with the next id and last_completed NULL; frequency is stored as
\* it is given
add_task(tbl, project, description, frequency) ==
  Append(tbl, TaskRow(Len(tbl) + 1, project, description, frequency))

(* ---------------------------- daily reminder --------------------------- *)
\* send_daily_todo from its entry to the awaited bot.send_message or to its
\* return.  It first reads the pending tasks (an error of the store ends the
\* call there); they shape the text of the message.
TodoDispatch(store_ok) ==
  /\ todo.pc = "idle"
  /\ tcall' = [op |-> "todo", arg |-> 0, at |-> wall,
               result |-> IF store_ok THEN check_pending_tasks(tasks, wall) ELSE {}]
  /\ todo' =
       IF ~store_ok
         THEN [pc |-> "idle", status |-> "raised", events |-> << >>,
               pending |-> FALSE]
       ELSE IF env.preview_only
         THEN [pc |-> "idle", status |-> "returned", events |-> <<"preview">>,
               pending |-> FALSE]
       ELSE IF env.bot = "raise"
         THEN [pc |-> "idle", status |-> "raised", events |-> << >>,
               pending |-> FALSE]
       ELSE IF env.bot = "none"
         THEN [pc |-> "idle", status |-> "returned", events |-> <<"preview">>,
               pending |-> FALSE]
       ELSE [pc |-> "send", status |-> "running", events |-> <<"open", "send">>,
             pending |-> FALSE]
  /\ UNCHANGED <<tasks, wall, daily>>
  /\ UNCHANGED <<gateVars, fnVars, scanVars, schedVars, loop_time>>

\* bot.send_message completes: it returns, raises an Exception (caught, the
\* message is printed) or raises another BaseException (not caught); the
\* finally clause then awaits bot.session.close().
TodoSendDone_no_finally(outcome) ==
  /\ todo.pc = "send"
  /\ todo' =
       IF outcome = "ok"
         THEN [todo EXCEPT !.pc = "close", !.events = @ \o <<"send_ok">>]
       ELSE IF outcome = "exception"
         THEN [todo EXCEPT !.pc = "idle", !.status = "returned",
                           !.events = @ \o <<"send_fail", "fallback_print">>]
       ELSE [todo EXCEPT !.pc = "idle", !.status = "raised",
                         !.events = @ \o <<"send_fail">>]
  /\ UNCHANGED <<tasks, wall, tcall, daily>>
  /\ UNCHANGED <<gateVars, fnVars, scanVars, schedVars, loop_time>>
TodoSendDone(outcome) ==
  /\ todo.pc = "send"
  /\ todo' =
       IF outcome = "ok"
         THEN [todo EXCEPT !.pc = "close", !.events = @ \o <<"send_ok">>]
       ELSE IF outcome = "exception"
         THEN [todo EXCEPT !.pc = "close",
                           !.events = @ \o <<"send_fail", "fallback_print">>]
       ELSE [todo EXCEPT !.pc = "close", !.pending = TRUE,
                         !.events = @ \o <<"send_fail">>]
  /\ UNCHANGED <<tasks, wall, tcall, daily>>
  /\ UNCHANGED <<gateVars, fnVars, scanVars, schedVars, loop_time>>

\* bot.session.close() completes in the finally clause; if it raises, or if
\* an exception of the send is pending, the call ends with that exception.
TodoCloseDone(ok) ==
  /\ todo.pc = "close"
  /\ todo' = [todo EXCEPT
                 !.pc = "idle",
                 !.pending = FALSE,
                 !.status = IF ok /\ ~todo.pending THEN "returned" ELSE "raised",
                 !.events = @ \o <<(IF ok THEN "close" ELSE "close_fail")>>]
  /\ UNCHANGED <<tasks, wall, tcall, daily>>
  /\ UNCHANGED <<gateVars, fnVars, scanVars, schedVars, loop_time>>

SendOutcomes == {"ok", "exception", "base_exception"}

TodoNext ==
  \/ \E store_ok \in BOOLEAN : TodoDispatch(store_ok)
  \/ \E outcome \in SendOutcomes : TodoSendDone(outcome)
  \/ \E ok \in BOOLEAN : TodoCloseDone(ok)

\* The gate, called in turn, next to the reminder dispatch of the task
\* manager (a program of its own that shares only the environment).
SessionNext ==
  \/ \E j \in Jobs, d \in Candidates : CallSeq(j, d)
  \/ \E j \in Jobs, ok \in BOOLEAN : SendDone(j, ok)
  \/ \E j \in Jobs, ok \in BOOLEAN : CloseDone(j, ok)
  \/ \E store_ok \in BOOLEAN : TodoDispatch(store_ok)
  \/ \E outcome \in SendOutcomes : TodoSendDone(outcome)
  \/ \E ok \in BOOLEAN : TodoCloseDone(ok)

SessionSpec == Init /\ [][SessionNext]_vars

TypeOK ==
  /\ clock \in 0..MaxClock
  /\ env \in Envs
  /\ pc \in [Jobs -> {"idle", "send", "close"}]
  /\ last.status \in {"none", "returned"}
  /\ todo.status \in {"none", "running", "returned", "raised"}
  /\ \A j \in Jobs : (pc[j] = "idle") = (cur[j] = NoCall)

(* ---------------------------- claims ---------------------------------- *)
Returned == last.status = "returned"
NonBlank == ~IsBlank(last.data.project)
Idle == \A j \in Jobs : pc[j] = "idle"

\* C1: a call with a non-blank project and force_send = TRUE makes an alert
\* attempt, whatever the store holds and whatever the score.
C1_ForcedCallAlerts ==
  (Returned /\ NonBlank /\ last.data.force_send)
    => AlertAttempts(last.events) >= 1

\* C2: when calls do not overlap, the non-forced calls for one project make
\* at most one alert attempt in total, from any initial store.
C2_AtMostOneAlert ==
  \A n \in Names : plain[n].alerts <= 1

C2_Witness ==
  /\ Idle
  /\ \E n \in Names : plain[n].calls >= 2 /\ plain[n].alerts = 1

\* C3: seen_projects never holds two rows with the same project_name, also
\* while jobs interleave their writes, and once a name has been upserted its
\* single row is the one written last.
C3_OneRowPerName ==
  /\ \A r1 \in table, r2 \in table : r1.project_name = r2.project_name => r1 = r2
  /\ \A n \in Names : lastWrite[n] # NoRow => RowsOf(table, n) = {lastWrite[n]}

\* a name written by two overlapping calls; the survivor is the later write
C3_Witness ==
  /\ Returned /\ clock = 2 /\ Idle
  /\ "close" \in { last.events[i] : i \in 1..Len(last.events) }
  /\ plain[last.name].calls = 2 /\ plain[last.name].alerts = 2
  /\ RowsOf(table, last.name) = {FullRow(last.data, 2)}

\* C4: a call whose project is empty or whitespace-only makes no alert
\* attempt and leaves the store as it was, for every score, immediate_token
\* and force_send.
C4_BlankIsNoOp ==
  (Returned /\ IsBlank(last.data.project))
    => /\ last.events = << >>
       /\ AlertAttempts(last.events) = 0
       /\ last.after = last.before

C4_Witness ==
  /\ Returned /\ last.data.project = <<" ">>
  /\ last.data.force_send /\ last.data.immediate_token /\ last.data.score = 8
  /\ last.events = << >>

\* C5: a non-forced call for a project whose row exists when the call is made
\* makes no alert attempt, whatever the score and immediate_token.
C5_SeenNotForcedIsSilent ==
  (Returned /\ last.existed /\ ~last.data.force_send)
    => AlertAttempts(last.events) = 0

C5_Witness ==
  /\ Returned /\ last.existed /\ ~last.data.force_send
  /\ last.data.immediate_token /\ last.data.score = 8
  /\ AlertAttempts(last.events) = 0

\* C6: a call suppressed because the project already exists (not forced)
\* still upserts: on return the row carries the score and the timestamp of
\* this call.
C6_SeenStillUpserts ==
  (Returned /\ NonBlank /\ last.existed /\ ~last.data.force_send)
    => \E r \in RowsOf(last.after, last.name) :
          r.last_score = last.data.score /\ r.timestamp = last.entered

\* C7: a call suppressed because score < 8 (not immediate, not forced) still
\* persists the candidate: on return a row with its score exists.
C7_LowScoreStillPersisted ==
  (Returned /\ NonBlank /\ ~last.existed /\ last.data.score < 8
     /\ ~last.data.immediate_token /\ ~last.data.force_send)
    => \E r \in RowsOf(last.after, last.name) : r.last_score = last.data.score

\* C8: for an unseen project, not immediate and not forced, score < 8 makes
\* no alert attempt and score >= 8 makes one: 7 is suppressed, 8 is not.
C8_ThresholdIsEight ==
  (Returned /\ NonBlank /\ ~last.existed
     /\ ~last.data.immediate_token /\ ~last.data.force_send)
    => /\ last.data.score < 8  => AlertAttempts(last.events) = 0
       /\ last.data.score >= 8 => AlertAttempts(last.events) >= 1

\* a call with score 8 that alerted, after a call for another project that
\* was not alerted and left no row
C8_Witness ==
  /\ Returned /\ NonBlank /\ ~last.existed /\ last.data.score = 8
  /\ ~last.data.immediate_token /\ ~last.data.force_send
  /\ AlertAttempts(last.events) = 1
  /\ \E n \in Names \ {last.name} :
        plain[n].calls = 1 /\ plain[n].alerts = 0 /\ RowsOf(table, n) = {}

\* C9: for an unseen non-blank project with score >= 8, not forced, the call
\* makes exactly one alert attempt and upserts the project; no upsert comes
\* before the attempt, and the row exists when the call returns.
C9_AlertThenPersist ==
  /\ (Returned /\ NonBlank /\ ~last.existed /\ last.data.score >= 8
        /\ ~last.data.force_send)
       => /\ AlertAttempts(last.events) = 1
          /\ Upserts(last.events) >= 1
          /\ \A i \in 1..Len(last.events), k \in 1..Len(last.events) :
                (last.events[i] = "upsert" /\ last.events[k] \in AttemptEvents)
                  => k < i
          /\ RowsOf(last.after, last.name) # {}
  /\ \A j \in Jobs : Upserts(cur[j].events) = 0

C9_Witness ==
  /\ Returned /\ NonBlank /\ ~last.existed /\ last.data.score >= 8
  /\ ~last.data.force_send
  /\ last.events = <<"open", "send", "send_fail", "fallback_print", "close", "upsert">>
  /\ RowsOf(table, last.name) # {}

\* C10: for an unseen project with immediate_token = TRUE and force_send =
\* FALSE the call makes an alert attempt even when score < 8.
C10_ImmediateBypassesThreshold ==
  (Returned /\ NonBlank /\ ~last.existed
     /\ last.data.immediate_token /\ ~last.data.force_send)
    => AlertAttempts(last.events) >= 1

Has(events, e) == \E i \in 1..Len(events) : events[i] = e
Count(events, e) == Cardinality({ i \in 1..Len(events) : events[i] = e })

\* C11: when the send raises, the candidate is still upserted and the call
\* returns normally; no call ever ends with an exception of the delivery.
C11_SendFailureStillPersists ==
  /\ last.status # "raised"
  /\ (Returned /\ Has(last.events, "send_fail"))
       => /\ RowsOf(last.after, last.name) # {}
          /\ last.events[Len(last.events)] = "upsert"
          /\ \E t \in last.entered..MaxClock : FullRow(last.data, t) \in last.after

C11_Witness ==
  /\ Returned /\ Has(last.events, "send_fail")
  /\ RowsOf(table, last.name) = {FullRow(last.data, clock)}

\* every "open" in the event list is followed by the call of session.close()
ClosesWhatItOpens(events) ==
  /\ Count(events, "open") = Count(events, "close") + Count(events, "close_fail")
  /\ \A i \in 1..Len(events) :
        events[i] = "open" =>
          \E k \in (i + 1)..Len(events) : events[k] \in {"close", "close_fail"}

\* C12: a bot session opened by process_and_notify or by send_daily_todo has
\* its close() called before the call ends, after a successful and after a
\* failed send alike; the paths that end before delivery (blank name, dedup,
\* threshold, preview-only, missing credentials) open no session.
C12_SessionsAreClosed ==
  /\ Returned =>
       /\ ClosesWhatItOpens(last.events)
       /\ (AlertAttempts(last.events) = 0 \/ Has(last.events, "preview"))
            => ~Has(last.events, "open")
  /\ todo.status \in {"returned", "raised"} =>
       /\ ClosesWhatItOpens(todo.events)
       /\ Has(todo.events, "preview") => ~Has(todo.events, "open")
  /\ (env.preview_only \/ env.bot # "ok") =>
       /\ ~Has(last.events, "open") /\ ~Has(todo.events, "open")
       /\ \A j \in Jobs : ~Has(cur[j].events, "open")

\* a gate call and a reminder dispatch that both failed to send, and both
\* closed their session
C12_Witness ==
  /\ Returned /\ Has(last.events, "send_fail") /\ Has(last.events, "close")
  /\ todo.status = "returned"
  /\ todo.events = <<"open", "send", "send_fail", "fallback_print", "close">>

\* C13: in preview-only mode, or without bot token / chat id, a candidate
\* that passes the gate is printed, nothing is sent, and the row left in the
\* store is the row the send path leaves (the six-column row of the
\* candidate).
C13_PreviewPersistsLikeSend ==
  (Returned /\ Has(last.events, "preview"))
    => /\ ~Has(last.events, "send")
       /\ RowsOf(last.after, last.name) = {FullRow(last.data, last.entered)}

(* ======================== the scorer ================================== *)
\* str.casefold() on the characters that occur in the names
UpperCase == <<"A","B","C","D","E","F","G","H","I","J","K","L","M",
               "N","O","P","Q","R","S","T","U","V","W","X","Y","Z">>
LowerCase == <<"a","b","c","d","e","f","g","h","i","j","k","l","m",
               "n","o","p","q","r","s","t","u","v","w","x","y","z">>

FoldChar(c) ==
  IF \E i \in 1..Len(UpperCase) : UpperCase[i] = c
    THEN LowerCase[CHOOSE i \in 1..Len(UpperCase) : UpperCase[i] = c]
    ELSE c

CaseFold(str) == [i \in 1..Len(str) |-> FoldChar(str[i])]

\* A dict is a sequence of <<key, value>> pairs with distinct keys, in
\* insertion order.  Assigning to a key that is present replaces its value.
DictHas(d, k) == \E i \in 1..Len(d) : d[i][1] = k
DictGet(d, k) == d[CHOOSE i \in 1..Len(d) : d[i][1] = k][2]
DictPut(d, k, v) ==
  IF DictHas(d, k)
    THEN [i \in 1..Len(d) |-> IF d[i][1] = k THEN <<k, v>> ELSE d[i]]
    ELSE Append(d, <<k, v>>)

\* A dict display {k1: v1, k2: v2, ...}: the pairs are stored left to right,
\* so a key written twice keeps its last value.
RECURSIVE DictDisplayFrom(_, _)
DictDisplayFrom(d, pairs) ==
  IF pairs = << >> THEN d
  ELSE DictDisplayFrom(DictPut(d, Head(pairs)[1], Head(pairs)[2]), Tail(pairs))

DictDisplay(pairs) == DictDisplayFrom(<< >>, pairs)

N_Paradigm == <<"P", "a", "r", "a", "d", "i", "g", "m">>
N_a16z_Crypto == <<"a", "1", "6", "z", " ", "C", "r", "y", "p", "t", "o">>
N_Polychain_Capital == <<"P", "o", "l", "y", "c", "h", "a", "i", "n", " ", "C", "a", "p", "i", "t", "a", "l">>
N_Binance_Labs == <<"B", "i", "n", "a", "n", "c", "e", " ", "L", "a", "b", "s">>
N_Coinbase_Ventures == <<"C", "o", "i", "n", "b", "a", "s", "e", " ", "V", "e", "n", "t", "u", "r", "e", "s">>
N_Multicoin_Capital == <<"M", "u", "l", "t", "i", "c", "o", "i", "n", " ", "C", "a", "p", "i", "t", "a", "l">>
N_OKX_Ventures == <<"O", "K", "X", " ", "V", "e", "n", "t", "u", "r", "e", "s">>
N_Dragonfly == <<"D", "r", "a", "g", "o", "n", "f", "l", "y">>
N_Robot_Ventures == <<"R", "o", "b", "o", "t", " ", "V", "e", "n", "t", "u", "r", "e", "s">>

Tier1Names == <<N_Paradigm, N_a16z_Crypto, N_Polychain_Capital>>
Tier2Names == <<N_Binance_Labs, N_Coinbase_Ventures, N_Multicoin_Capital>>
Tier3Names == <<N_OKX_Ventures, N_Dragonfly, N_Robot_Ventures>>

\* VC_TIERS as the display is written: "tier_3" first with "investors" given
\* twice, then "tier_2" and "tier_3" once more.
VC_TIERS ==
  DictDisplay(<<
    <<"tier_1", DictDisplay(<< <<"score", 10>>, <<"investors", Tier1Names>> >>)>>,
    <<"tier_2", DictDisplay(<< <<"score", 8>>,  <<"investors", Tier2Names>> >>)>>,
    <<"tier_3", DictDisplay(<< <<"score", 5>>,  <<"investors", Tier3Names>>,
                                                <<"investors", Tier1Names>> >>)>>,
    <<"tier_2", DictDisplay(<< <<"score", 8>>,  <<"investors", Tier2Names>> >>)>>,
    <<"tier_3", DictDisplay(<< <<"score", 5>>,  <<"investors", Tier3Names>> >>)>>
  >>)

\* _investor_score_lookup: lookup[name.casefold()] = score, tier by tier
RECURSIVE PutNames(_, _, _)
PutNames(lookup, investors, score) ==
  IF investors = << >> THEN lookup
  ELSE PutNames(DictPut(lookup, CaseFold(Head(investors)), score),
                Tail(investors), score)

RECURSIVE PutTiers(_, _)
PutTiers(lookup, tiers) ==
  IF tiers = << >> THEN lookup
  ELSE PutTiers(PutNames(lookup, DictGet(Head(tiers)[2], "investors"),
                         DictGet(Head(tiers)[2], "score")),
                Tail(tiers))

_investor_score_lookup == PutTiers(<< >>, VC_TIERS)

\* lookup.get(str(investor).strip().casefold(), 0)
LookupScore_no_strip(lookup, investor) ==
  LET normalized == CaseFold(investor)
  IN  IF DictHas(lookup, normalized) THEN DictGet(lookup, normalized) ELSE 0
LookupScore(lookup, investor) ==
  LET normalized == CaseFold(Strip(investor))
  IN  IF DictHas(lookup, normalized) THEN DictGet(lookup, normalized) ELSE 0

\* the loop of lines 241-243 (it starts again from 0, so the sum of line 238
\* is not the value that is returned)
RECURSIVE TotalScore(_, _, _)
TotalScore(lookup, investors, total_score) ==
  IF investors = << >> THEN total_score
  ELSE TotalScore(lookup, Tail(investors),
                  total_score + LookupScore(lookup, Head(investors)))

\* the label of lines 245-250
PriorityLabel_strict(total_score) ==
  IF total_score > 18 THEN "HIGH PRIORITY"
  ELSE IF total_score > 8 THEN "MEDIUM"
  ELSE "LOW"
PriorityLabel(total_score) ==
  IF total_score >= 18 THEN "HIGH PRIORITY"
  ELSE IF total_score >= 8 THEN "MEDIUM"
  ELSE "LOW"

calculate_score(investors) ==
  LET total_score == TotalScore(_investor_score_lookup, investors, 0)
  IN  [score |-> total_score, label |-> PriorityLabel(total_score)]

\* ---- the scorer applied to investor lists
\* longest investor list tried
MaxInvestors == 3

InvestorInputs ==
  { N_Paradigm,
    <<" ", "a", "1", "6", "z", " ", "C", "R", "Y", "P", "T", "O", " ">>,
    N_Binance_Labs,
    <<"o", "k", "x", " ", "v", "e", "n", "t", "u", "r", "e", "s">>,
    <<"a", "1", "6", "z">> }

InvestorLists ==
  UNION { [1..n -> InvestorInputs] : n \in 0..MaxInvestors }

\* The gate at rest: nothing stored, nothing in flight.
GateAtRest ==
  /\ table = {} /\ clock = 0
  /\ env = [preview_only |-> TRUE, bot |-> "ok"]
  /\ pc = [j \in Jobs |-> "idle"]
  /\ cur = [j \in Jobs |-> NoCall]
  /\ last = NoCall
  /\ plain = [n \in Names |-> [calls |-> 0, alerts |-> 0]]
  /\ lastWrite = [n \in Names |-> NoRow]

ScoreInit ==
  /\ GateAtRest /\ TodoAtRest /\ ScanAtRest /\ SchedAtRest /\ loop_time = 0
  /\ inp \in [kind : {"score"}, investors : InvestorLists]
  /\ out = [kind |-> "none"]

ScoreApply ==
  /\ inp.kind = "score" /\ out.kind = "none"
  /\ out' = [kind |-> "score"] @@ calculate_score(inp.investors)
  /\ UNCHANGED <<inp, gateVars, todoVars, scanVars, schedVars, loop_time>>

ScoreNext == ScoreApply

ScoreSpec == ScoreInit /\ [][ScoreNext]_vars

\* ---- claims about the scorer
\* the tier of a trimmed, case-folded name, as the tier table is specified
TierOf(normalized) ==
  IF normalized \in
      { <<"p", "a", "r", "a", "d", "i", "g", "m">>,
        <<"a", "1", "6", "z", " ", "c", "r", "y", "p", "t", "o">>,
        <<"p", "o", "l", "y", "c", "h", "a", "i", "n", " ", "c", "a", "p", "i", "t", "a", "l">> } THEN 10
  ELSE IF normalized \in
      { <<"b", "i", "n", "a", "n", "c", "e", " ", "l", "a", "b", "s">>,
        <<"c", "o", "i", "n", "b", "a", "s", "e", " ", "v", "e", "n", "t", "u", "r", "e", "s">>,
        <<"m", "u", "l", "t", "i", "c", "o", "i", "n", " ", "c", "a", "p", "i", "t", "a", "l">> } THEN 8
  ELSE IF normalized \in
      { <<"o", "k", "x", " ", "v", "e", "n", "t", "u", "r", "e", "s">>,
        <<"d", "r", "a", "g", "o", "n", "f", "l", "y">>,
        <<"r", "o", "b", "o", "t", " ", "v", "e", "n", "t", "u", "r", "e", "s">> } THEN 5
  ELSE 0

RECURSIVE SumOver(_)
SumOver(investors) ==
  IF investors = << >> THEN 0
  ELSE TierOf(CaseFold(Strip(Head(investors)))) + SumOver(Tail(investors))

Reorderings(n) ==
  { f \in [1..n -> 1..n] : \A i, k \in 1..n : f[i] = f[k] => i = k }

\* C14: calculate_score returns the sum over the list of the tier score of
\* the trimmed, case-folded name (10 / 8 / 5, unmatched 0, repeats counted
\* each time), and every permutation of the list gets the same total.
C14_ScoreIsTierSum ==
  out.kind = "score" =>
    /\ out.score = SumOver(inp.investors)
    /\ \A f \in Reorderings(Len(inp.investors)) :
          calculate_score([i \in 1..Len(inp.investors) |-> inp.investors[f[i]]]).score
            = out.score

\* a padded upper-case tier-1 name, a repeated tier-3 name and an unmatched
\* name: 10 + 5 + 5 + 0 is not reachable with three entries, so 10 + 5 + 5
C14_Witness ==
  /\ out.kind = "score" /\ out.score = 20
  /\ Len(inp.investors) = 3
  /\ inp.investors[1] = <<"o", "k", "x", " ", "v", "e", "n", "t", "u", "r", "e", "s">>
  /\ inp.investors[2] = <<" ", "a", "1", "6", "z", " ", "C", "R", "Y", "P", "T", "O", " ">>
  /\ inp.investors[3] = inp.investors[1]

\* C15: the label is HIGH iff score >= 18, MEDIUM iff 8 <= score < 18 and LOW
\* iff score < 8; 7 is LOW, 8 and 17 are MEDIUM, 18 is HIGH.
C15_LabelThresholds ==
  /\ out.kind = "score" =>
       /\ (out.label = "HIGH PRIORITY") <=> (out.score >= 18)
       /\ (out.label = "MEDIUM") <=> (out.score >= 8 /\ out.score < 18)
       /\ (out.label = "LOW") <=> (out.score < 8)
  /\ PriorityLabel(7) = "LOW" /\ PriorityLabel(8) = "MEDIUM"
  /\ PriorityLabel(17) = "MEDIUM" /\ PriorityLabel(18) = "HIGH PRIORITY"

\* Paradigm and Binance Labs: 10 + 8 = 18, the lowest HIGH score
C15_Witness ==
  /\ out.kind = "score" /\ out.score = 18 /\ out.label = "HIGH PRIORITY"
  /\ inp.investors = <<N_Paradigm, N_Binance_Labs>>

(* ======================== the extractor =============================== *)
DEFAULT_MODEL_CANDIDATES ==
  <<"gemini-1.5-flash", "gemini-1.5-flash-latest",
    "gemini-2.0-flash", "gemini-2.0-flash-lite">>

\* GEMINI_MODEL set: that model alone
_gemini_models_to_try(forced) ==
  IF forced THEN <<"forced">> ELSE DEFAULT_MODEL_CANDIDATES

\* What one model attempt does: "json" is a reply that parses to an object,
\* "unparseable" a reply json.loads (or _coerce_extraction) rejects, "raise"
\* a generate_content call that raises.
Replies == {"json", "unparseable", "raise"}

\* _coerce_extraction always builds the three fields; calls counts the
\* generate_content calls made
Extracted(path) ==
  [outcome |-> "returned", error |-> "none", path |-> path, complete |-> TRUE,
   calls |-> 0]
Raised(error) ==
  [outcome |-> "raised", error |-> error, path |-> "none", complete |-> FALSE,
   calls |-> 0]

\* the loop of lines 160-171: a failed attempt is remembered and the next
\* model is tried; RuntimeError after the last
RECURSIVE GenaiAttempts(_, _, _)
GenaiAttempts(replies, models, i) ==
  IF i > Len(models) THEN [Raised("RuntimeError") EXCEPT !.calls = Len(models)]
  ELSE IF replies[i] = "json" THEN [Extracted("model") EXCEPT !.calls = i]
  ELSE GenaiAttempts(replies, models, i + 1)

_analyze_with_google_genai(installed, replies, forced) ==
  IF ~installed THEN Raised("ModuleNotFoundError")
  ELSE GenaiAttempts(replies, _gemini_models_to_try(forced), 1)

\* the loop of lines 192-207: the first except clause handles every failure
\* and parses the reply again, so the failure of an attempt leaves the loop:
\* a call that raised has bound no response (UnboundLocalError), a reply that
\* did not parse does not parse the second time either.  The second except
\* clause is never entered.
_analyze_with_google_generativeai(installed, replies, forced) ==
  LET models == _gemini_models_to_try(forced)
  IN  IF ~installed THEN Raised("ModuleNotFoundError")
      ELSE IF Len(models) = 0 THEN Raised("RuntimeError")
      ELSE IF replies[1] = "json" THEN [Extracted("model") EXCEPT !.calls = 1]
      ELSE IF replies[1] = "raise"
        THEN [Raised("UnboundLocalError") EXCEPT !.calls = 1]
      ELSE [Raised("JSONDecodeError") EXCEPT !.calls = 1]

\* lines 212-219 (lines 220-229 follow a return and are never executed)
analyze_alpha_post(in) ==
  IF ~in.api_key THEN Raised("ValueError")
  ELSE LET first == _analyze_with_google_genai(in.genai, in.replies, in.forced)
       IN  IF first.error = "ModuleNotFoundError"
             THEN _analyze_with_google_generativeai(in.generativeai, in.replies,
                                                    in.forced)
             ELSE first

ExtractInputs ==
  [kind : {"extract"}, api_key : BOOLEAN, genai : BOOLEAN,
   generativeai : BOOLEAN, forced : BOOLEAN,
   replies : [1..Len(DEFAULT_MODEL_CANDIDATES) -> Replies]]

ExtractInit ==
  /\ GateAtRest /\ TodoAtRest /\ ScanAtRest /\ SchedAtRest /\ loop_time = 0
  /\ inp \in ExtractInputs
  /\ out = [kind |-> "none"]

ExtractApply ==
  /\ inp.kind = "extract" /\ out.kind = "none"
  /\ out' = [kind |-> "extract"] @@ analyze_alpha_post(inp)
  /\ UNCHANGED <<inp, gateVars, todoVars, scanVars, schedVars, loop_time>>

ExtractNext == ExtractApply

ExtractSpec == ExtractInit /\ [][ExtractNext]_vars

\* ---- claims about the extractor
AllAttemptsFail(in) ==
  \A i \in 1..Len(_gemini_models_to_try(in.forced)) : in.replies[i] # "json"

\* C16: without an API key, or when every model attempt fails or replies
\* with unparseable JSON, analyze_alpha_post does not raise: it returns the
\* record of the rule-based extractor, with project, action and investors.
C16_ExtractionNeverRaises ==
  (out.kind = "extract" /\ (~inp.api_key \/ AllAttemptsFail(inp)))
    => /\ out.outcome = "returned"
       /\ out.path = "rule_based"
       /\ out.complete

\* C28: within one client the models are tried in list order; a model whose
\* call raises or whose reply does not parse is skipped, the first model
\* whose reply parses supplies the result and no later model is called, and
\* the client fails only after every model has failed.
C28_ModelsTriedInOrder ==
  (out.kind = "extract" /\ inp.api_key /\ (inp.genai \/ inp.generativeai))
    => LET models == _gemini_models_to_try(inp.forced)
           good   == { i \in 1..Len(models) : inp.replies[i] = "json" }
       IN  IF good # {}
             THEN /\ out.outcome = "returned"
                  /\ \A k \in good : out.calls <= k
                  /\ out.calls \in good
             ELSE out.outcome = "raised" /\ out.calls = Len(models)

(* ======================== run_scan ==================================== *)
\* the arguments daily_scan and mid_term_scan pass to run_scan
ArgsOf(j) ==
  IF j = "daily_scan"
    THEN <<"X & Telegram", "fetch_x_and_telegram", "daily_scan">>
    ELSE <<"DefiLlama", "fetch_defillama", "mid_term_scan">>

\* the delay of call_later, in seconds
RetryDelay == 3600

\* An item is "empty" (neither title nor text), "ok" (analyze_alpha_post
\* returns a record) or "extract_raises" (analyze_alpha_post raises).
ItemKinds == {"empty", "ok", "extract_raises"}
ItemLists ==
  { << >>, <<"ok">>, <<"extract_raises", "ok">>, <<"ok", "empty", "ok">> }

Logged(sc, k, steps) ==
  [sc EXCEPT !.log = @ \o [i \in 1..Len(steps) |-> <<k, steps[i]>>]]

\* The loop of lines 79-100 from item sc.k on, up to the next await or to
\* the end of the list.  pc "failed" stands for an exception that reaches
\* the outer except clause.
RECURSIVE Advance_no_inner_try(_)
Advance_no_inner_try(sc) ==
  IF sc.k > Len(sc.items) THEN [sc EXCEPT !.pc = "done", !.outcome = "returned"]
  ELSE IF sc.items[sc.k] = "empty"
    THEN Advance_no_inner_try([Logged(sc, sc.k, <<"skip">>) EXCEPT !.k = @ + 1])
  ELSE IF sc.items[sc.k] = "extract_raises"
    THEN [Logged(sc, sc.k, <<"extract", "extract_raised">>) EXCEPT !.pc = "failed"]
  ELSE [Logged(sc, sc.k, <<"extract", "score", "gate_start">>)
          EXCEPT !.pc = "in_gate", !.pending = @ \cup {sc.k}]

RECURSIVE Advance_gate_not_awaited(_)
Advance_gate_not_awaited(sc) ==
  IF sc.k > Len(sc.items) THEN [sc EXCEPT !.pc = "done", !.outcome = "returned"]
  ELSE IF sc.items[sc.k] = "empty"
    THEN Advance_gate_not_awaited([Logged(sc, sc.k, <<"skip">>) EXCEPT !.k = @ + 1])
  ELSE IF sc.items[sc.k] = "extract_raises"
    THEN Advance_gate_not_awaited(
           [Logged(sc, sc.k, <<"extract", "extract_raised", "error_logged">>)
              EXCEPT !.k = @ + 1])
  ELSE Advance_gate_not_awaited(
         [Logged(sc, sc.k, <<"extract", "score", "gate_start">>)
            EXCEPT !.k = @ + 1, !.pending = @ \cup {sc.k}])

RECURSIVE Advance(_)
Advance(sc) ==
  IF sc.k > Len(sc.items) THEN [sc EXCEPT !.pc = "done", !.outcome = "returned"]
  ELSE IF sc.items[sc.k] = "empty"
    THEN Advance([Logged(sc, sc.k, <<"skip">>) EXCEPT !.k = @ + 1])
  ELSE IF sc.items[sc.k] = "extract_raises"
    THEN Advance([Logged(sc, sc.k, <<"extract", "extract_raised", "error_logged">>)
                    EXCEPT !.k = @ + 1])
  ELSE [Logged(sc, sc.k, <<"extract", "score", "gate_start">>)
          EXCEPT !.pc = "in_gate", !.pending = @ \cup {sc.k}]

\* line 105: call_later(3600, lambda: create_task(run_scan(same arguments)))
ScheduleRetry_none(pending_timers, j, sc, now) == pending_timers
ScheduleRetry_first_run_only(pending_timers, j, sc, now) ==
  IF sc.origin = "retry" THEN pending_timers
  ELSE pending_timers \cup
         { [job |-> j, run |-> sc.run, due |-> now + RetryDelay, args |-> sc.args] }
ScheduleRetry(pending_timers, j, sc, now) ==
  pending_timers \cup
    { [job |-> j, run |-> sc.run, due |-> now + RetryDelay, args |-> sc.args] }

\* lines 102-105: what reaches the outer except clause is logged, a retry
\* is scheduled and run_scan returns
OuterExcept(sc, now) ==
  IF sc.pc = "failed"
    THEN [sc EXCEPT !.pc = "done", !.outcome = "returned", !.failed_at = now]
    ELSE sc

NewRun(run, origin, args) ==
  [NoScan EXCEPT !.pc = "fetching", !.run = run, !.origin = origin,
                 !.args = args]

\* daily_scan() / mid_term_scan() started as a task: run_scan up to
\* `await items_fetcher()`
ScanStart(j) ==
  /\ scan[j].pc = "idle"
  /\ scan' = [scan EXCEPT ![j] = NewRun(1, "startup", ArgsOf(j))]
  /\ UNCHANGED <<timers, loop_time, gateVars, todoVars, fnVars, schedVars>>

\* the fetcher returns its items: the loop runs up to the first gate call
FetchDone(j, items) ==
  /\ scan[j].pc = "fetching"
  /\ LET sc == Advance([scan[j] EXCEPT !.fetch = "ok", !.items = items, !.k = 1])
     IN  /\ scan' = [scan EXCEPT ![j] = OuterExcept(sc, loop_time)]
         /\ timers' = IF sc.pc = "failed"
                        THEN ScheduleRetry(timers, j, sc, loop_time)
                        ELSE timers
  /\ UNCHANGED <<loop_time, gateVars, todoVars, fnVars, schedVars>>

\* the fetcher raises: line 78 to the outer except clause
FetchFailed(j) ==
  /\ scan[j].pc = "fetching"
  /\ LET sc == [scan[j] EXCEPT !.fetch = "failed", !.pc = "failed"]
     IN  /\ scan' = [scan EXCEPT ![j] = OuterExcept(sc, loop_time)]
         /\ timers' = ScheduleRetry(timers, j, sc, loop_time)
  /\ UNCHANGED <<loop_time, gateVars, todoVars, fnVars, schedVars>>

\* `await process_and_notify(project_data)` of item k returns (ok) or raises;
\* a raise is logged at line 100; the loop goes on with the next item
GateDone(j, k, ok) ==
  /\ k \in scan[j].pending
  /\ LET ended == [Logged(scan[j], k,
                          IF ok THEN <<"gate_end">>
                                ELSE <<"gate_raised", "error_logged">>)
                     EXCEPT !.pending = @ \ {k}]
         sc == IF ended.pc = "in_gate"
                 THEN Advance([ended EXCEPT !.k = @ + 1])
                 ELSE ended
     IN  /\ scan' = [scan EXCEPT ![j] = OuterExcept(sc, loop_time)]
         /\ timers' = IF sc.pc = "failed"
                        THEN ScheduleRetry(timers, j, sc, loop_time)
                        ELSE timers
  /\ UNCHANGED <<loop_time, gateVars, todoVars, fnVars, schedVars>>

\* the call_later callback runs, not before it is due: a new run_scan task
\* with the arguments the lambda closed over
TimerFire(t) ==
  /\ t \in timers
  /\ loop_time >= t.due
  /\ scan[t.job].pc = "done"
  /\ timers' = timers \ {t}
  /\ scan' = [scan EXCEPT ![t.job] = NewRun(t.run + 1, "retry", t.args)]
  /\ UNCHANGED <<loop_time, gateVars, todoVars, fnVars, schedVars>>

\* number of half hours the event loop's clock is followed for
MaxTicks == 4

Tick ==
  /\ loop_time < MaxTicks * (RetryDelay \div 2)
  /\ loop_time' = loop_time + (RetryDelay \div 2)
  /\ UNCHANGED <<scanVars, gateVars, todoVars, fnVars, schedVars>>

ScanInit ==
  /\ GateAtRest /\ TodoAtRest /\ FnAtRest /\ ScanAtRest /\ SchedAtRest
  /\ loop_time = 0

ScanNext ==
  \/ \E j \in Jobs : ScanStart(j)
  \/ \E j \in Jobs, items \in ItemLists : FetchDone(j, items)
  \/ \E j \in Jobs : FetchFailed(j)
  \/ \E j \in Jobs, k \in 1..3, ok \in BOOLEAN : GateDone(j, k, ok)
  \/ \E t \in timers : TimerFire(t)
  \/ Tick

ScanSpec == ScanInit /\ [][ScanNext]_vars

\* ---- claims about run_scan
Finished(j) == scan[j].pc = "done" /\ scan[j].pending = {}
RetriesOf(j) == { t \in timers : t.job = j /\ t.run = scan[j].run }

\* C17: when extraction or the gate fails for one item, only that item is
\* abandoned: every later item is still processed, and the scan does not
\* fail (nothing reaches the outer handler, no retry is scheduled).
C17_ItemFailureIsIsolated ==
  \A j \in Jobs :
    (Finished(j) /\ scan[j].fetch = "ok") =>
      /\ \A k \in 1..Len(scan[j].items) :
           /\ scan[j].items[k] = "empty" => Has(scan[j].log, <<k, "skip">>)
           /\ scan[j].items[k] = "ok" =>
                /\ Has(scan[j].log, <<k, "gate_start">>)
                /\ Has(scan[j].log, <<k, "gate_end">>)
                     \/ Has(scan[j].log, <<k, "gate_raised">>)
           /\ scan[j].items[k] = "extract_raises" =>
                /\ Has(scan[j].log, <<k, "error_logged">>)
                /\ ~Has(scan[j].log, <<k, "gate_start">>)
      /\ scan[j].outcome = "returned"
      /\ RetriesOf(j) = {}

\* item 1's extraction raised, item 2 went through the gate
C17_Witness ==
  \E j \in Jobs :
    /\ Finished(j) /\ scan[j].items = <<"extract_raises", "ok">>
    /\ Has(scan[j].log, <<1, "extract_raised">>)
    /\ Has(scan[j].log, <<2, "gate_end">>)

\* C18: a failed fetch makes run_scan return without raising, with exactly
\* one re-run of the same scan (same source, fetcher and tag) scheduled
\* 3600 s later; a scan whose fetch succeeded schedules none.
C18_FetchFailureRetriesOnce ==
  \A j \in Jobs :
    /\ scan[j].args \in {<< >>, ArgsOf(j)}
    /\ scan[j].pc = "done" =>
         /\ scan[j].outcome = "returned"
         /\ scan[j].fetch = "failed" =>
              /\ Cardinality(RetriesOf(j)) = 1
              /\ \A t \in RetriesOf(j) :
                   t.due = scan[j].failed_at + 3600 /\ t.args = ArgsOf(j)
         /\ scan[j].fetch = "ok" => RetriesOf(j) = {}

\* a retry whose fetch failed again, with its own retry pending
C18_Witness ==
  \E j \in Jobs :
    /\ scan[j].pc = "done" /\ scan[j].fetch = "failed"
    /\ scan[j].origin = "retry" /\ scan[j].failed_at >= 3600
    /\ RetriesOf(j) # {}

StepRank(step) ==
  CASE step \in {"skip", "extract"} -> 1
    [] step \in {"extract_raised", "score"} -> 2
    [] step \in {"gate_start"} -> 3
    [] step \in {"gate_end", "gate_raised"} -> 4
    [] OTHER -> 5

\* C19: within one run_scan the items are processed in fetch order and the
\* steps of item k all complete (or fail) before any step of item k+1
\* starts.
C19_ItemsInOrderNoOverlap ==
  \A j \in Jobs :
    LET log == scan[j].log
    IN  /\ \A p, q \in 1..Len(log) :
             p < q => /\ log[p][1] <= log[q][1]
                      /\ log[p][1] = log[q][1]
                           => StepRank(log[p][2]) <= StepRank(log[q][2])
        /\ \A k \in scan[j].pending :
             Len(log) > 0 /\ log[Len(log)] = <<k, "gate_start">>

\* three items, the two real ones both through the gate
C19_Witness ==
  \E j \in Jobs :
    /\ Finished(j) /\ scan[j].items = <<"ok", "empty", "ok">>
    /\ Has(scan[j].log, <<1, "gate_end">>)
    /\ Has(scan[j].log, <<3, "gate_end">>)

\* ---- retries over time
\* The event loop keeps running (main sleeps in a loop, lines 187-189), so
\* its clock advances and a due callback is run; an awaited fetcher or gate
\* call comes back, one way or the other.
RetrySpec ==
  /\ ScanInit /\ [][ScanNext]_vars
  /\ WF_vars(Tick)
  /\ WF_vars(\E t \in timers : TimerFire(t))
  /\ \A j \in Jobs :
       /\ WF_vars((\E items \in ItemLists : FetchDone(j, items)) \/ FetchFailed(j))
       /\ WF_vars(\E k \in 1..3, ok \in BOOLEAN : GateDone(j, k, ok))

\* C33: every failed fetch, that of a retry included, schedules exactly one
\* further retry an hour later, and that retry is started (as far as the
\* clock is followed), so a source that does not recover is tried again
\* every hour; a run whose fetch succeeds has its items processed.
C33_RetriesRenew ==
  /\ [](\A j \in Jobs :
          (scan[j].pc = "done" /\ scan[j].fetch = "failed") =>
            /\ Cardinality({ t \in timers : t.job = j }) = 1
            /\ \A t \in timers :
                 t.job = j => /\ t.run = scan[j].run
                              /\ t.due = scan[j].failed_at + RetryDelay
                              /\ t.args = ArgsOf(j))
  /\ \A j \in Jobs, r \in 1..(MaxTicks + 1) :
       (/\ scan[j].run = r /\ scan[j].pc = "done" /\ scan[j].fetch = "failed"
        /\ scan[j].failed_at + RetryDelay <= MaxTicks * (RetryDelay \div 2))
         ~> (scan[j].run = r + 1 /\ scan[j].origin = "retry"
             /\ scan[j].pc = "fetching" /\ scan[j].args = ArgsOf(j))
  /\ \A j \in Jobs :
       (scan[j].pc = "fetching")
         ~> (Finished(j) /\
             (scan[j].fetch = "ok" =>
                \A k \in 1..Len(scan[j].items) :
                  scan[j].items[k] # "empty" => Has(scan[j].log, <<k, "extract">>)))

\* the retry of a retry: the third run of a scan, two hours after the
\* first, fetched its items and processed them
C33_Witness ==
  \E j \in Jobs :
    /\ scan[j].run = 3 /\ scan[j].origin = "retry"
    /\ Finished(j) /\ scan[j].fetch = "ok" /\ Len(scan[j].items) = 3
    /\ loop_time = 2 * RetryDelay

(* ======================== scheduler startup =========================== *)
\* IntervalTrigger(hours=24), (days=3), (days=7), (days=30), in seconds
IntervalOf(j) ==
  CASE j = "daily_scan"      -> 24 * 3600
    [] j = "mid_term_scan"   -> 3 * 24 * 3600
    [] j = "weekly_research" -> 7 * 24 * 3600
    [] j = "monthly_alpha"   -> 30 * 24 * 3600

\* main() up to scheduler.start(): the store is initialised and seeded, the
\* four jobs are registered, one task per job is created, the scheduler is
\* started (an interval trigger first fires one interval after the start).
Startup_no_initial_run ==
  /\ sched.phase = "boot"
  /\ sched' = [sched EXCEPT !.phase = "running", !.seeded = TRUE,
                            !.started_at = loop_time,
                            !.interval = [j \in SchedJobs |-> IntervalOf(j)],
                            !.next_fire = [j \in SchedJobs |-> loop_time + IntervalOf(j)]]
  /\ UNCHANGED <<execs, loop_time, gateVars, todoVars, fnVars, scanVars>>
Startup ==
  /\ sched.phase = "boot"
  /\ sched' = [sched EXCEPT !.phase = "running", !.seeded = TRUE,
                            !.started_at = loop_time,
                            !.interval = [j \in SchedJobs |-> IntervalOf(j)],
                            !.next_fire = [j \in SchedJobs |-> loop_time + IntervalOf(j)],
                            !.tasks = SchedJobs]
  /\ UNCHANGED <<execs, loop_time, gateVars, todoVars, fnVars, scanVars>>

\* a task created at lines 179-182 gets its first turn: job j executes
TaskBegin(j) ==
  /\ j \in sched.tasks
  /\ sched' = [sched EXCEPT !.tasks = @ \ {j}]
  /\ execs' = [execs EXCEPT ![j] = @ + 1]
  /\ UNCHANGED <<loop_time, gateVars, todoVars, fnVars, scanVars>>

\* the interval trigger of job j is due: job j executes, and the trigger
\* moves one interval on
IntervalFire(j) ==
  /\ sched.phase = "running"
  /\ loop_time >= sched.next_fire[j]
  /\ sched' = [sched EXCEPT !.next_fire[j] = @ + sched.interval[j]]
  /\ execs' = [execs EXCEPT ![j] = @ + 1]
  /\ UNCHANGED <<loop_time, gateVars, todoVars, fnVars, scanVars>>

\* days the scheduler is followed for
MaxDays == 60

Settled ==
  /\ sched.phase = "running" /\ sched.tasks = {}
  /\ \A j \in SchedJobs : sched.next_fire[j] > loop_time

\* main() sleeps (lines 187-189): with every ready task run and no trigger
\* due, time passes up to the next trigger
Sleep ==
  /\ Settled
  /\ \E j \in SchedJobs :
       /\ \A i \in SchedJobs : sched.next_fire[j] <= sched.next_fire[i]
       /\ sched.next_fire[j] <= MaxDays * 24 * 3600
       /\ loop_time' = sched.next_fire[j]
  /\ UNCHANGED <<schedVars, gateVars, todoVars, fnVars, scanVars>>

SchedInit ==
  /\ GateAtRest /\ TodoAtRest /\ FnAtRest /\ ScanAtRest /\ SchedAtRest
  /\ loop_time = 0

SchedNext ==
  \/ Startup
  \/ \E j \in SchedJobs : TaskBegin(j)
  \/ \E j \in SchedJobs : IntervalFire(j)
  \/ Sleep

SchedSpec == SchedInit /\ [][SchedNext]_vars

BlockingSteps == {"feed_fetch", "extracting"}

\* "fetching" is `await fetch_tweets(...)`, "in_gate" the awaited
\* bot.send_message / session.close of process_and_notify
AwaitingSteps == {"fetching", "in_gate"}

LoopFree(j) == \A i \in Jobs \ {j} : scan[i].pc \notin BlockingSteps

\* the loop of lines 79-85 from item sc.k up to the call of
\* analyze_alpha_post, or to the end of the list
RECURSIVE BeginItem(_)
BeginItem(sc) ==
  IF sc.k > Len(sc.items) THEN [sc EXCEPT !.pc = "done", !.outcome = "returned"]
  ELSE IF sc.items[sc.k] = "empty"
    THEN BeginItem([Logged(sc, sc.k, <<"skip">>) EXCEPT !.k = @ + 1])
  ELSE [Logged(sc, sc.k, <<"extract">>) EXCEPT !.pc = "extracting"]

\* the placeholder fetchers return one item and never suspend
PlaceholderItems == <<"ok">>

\* The task of job j gets its first turn.  daily_scan suspends in
\* fetch_tweets; mid_term_scan's fetcher returns at once and the coroutine
\* runs on into the first extraction.
LoopStart(j) ==
  /\ scan[j].pc = "idle"
  /\ LoopFree(j)
  /\ scan' = [scan EXCEPT ![j] =
       IF j = "daily_scan"
         THEN NewRun(1, "startup", ArgsOf(j))
         ELSE BeginItem([NewRun(1, "startup", ArgsOf(j)) EXCEPT
                           !.fetch = "ok", !.items = PlaceholderItems, !.k = 1])]
  /\ UNCHANGED <<timers, loop_time, gateVars, todoVars, fnVars, schedVars>>

\* fetch_tweets has returned: fetch_x_and_telegram goes on to the site feeds
LoopTweetsDone(j) ==
  /\ scan[j].pc = "fetching"
  /\ LoopFree(j)
  /\ scan' = [scan EXCEPT ![j].pc = "feed_fetch"]
  /\ UNCHANGED <<timers, loop_time, gateVars, todoVars, fnVars, schedVars>>

\* the site feeds have been read: run_scan has its items
LoopFeedsDone(j, items) ==
  /\ scan[j].pc = "feed_fetch"
  /\ scan' = [scan EXCEPT ![j] =
                BeginItem([scan[j] EXCEPT !.fetch = "ok", !.items = items, !.k = 1])]
  /\ UNCHANGED <<timers, loop_time, gateVars, todoVars, fnVars, schedVars>>

\* analyze_alpha_post returns or raises; after a record the gate is called,
\* which either suspends in its delivery or returns without awaiting
LoopExtractDone(j, gate_awaits) ==
  /\ scan[j].pc = "extracting"
  /\ LET sc == scan[j]
     IN  scan' = [scan EXCEPT ![j] =
           IF sc.items[sc.k] = "extract_raises"
             THEN BeginItem([Logged(sc, sc.k, <<"extract_raised", "error_logged">>)
                               EXCEPT !.k = @ + 1])
           ELSE IF gate_awaits
             THEN [Logged(sc, sc.k, <<"score", "gate_start">>)
                     EXCEPT !.pc = "in_gate", !.pending = {sc.k}]
           ELSE BeginItem([Logged(sc, sc.k, <<"score", "gate_start", "gate_end">>)
                             EXCEPT !.k = @ + 1])]
  /\ UNCHANGED <<timers, loop_time, gateVars, todoVars, fnVars, schedVars>>

\* the delivery that process_and_notify awaited has completed
LoopGateDone(j, ok) ==
  /\ scan[j].pc = "in_gate"
  /\ LoopFree(j)
  /\ LET sc == scan[j]
     IN  scan' = [scan EXCEPT ![j] =
           BeginItem([Logged(sc, sc.k, IF ok THEN <<"gate_end">>
                                             ELSE <<"gate_raised", "error_logged">>)
                        EXCEPT !.k = @ + 1, !.pending = {}])]
  /\ UNCHANGED <<timers, loop_time, gateVars, todoVars, fnVars, schedVars>>

\* time passes, whatever the coroutines are doing
LoopTick ==
  /\ loop_time < MaxTicks * (RetryDelay \div 2)
  /\ loop_time' = loop_time + (RetryDelay \div 2)
  /\ UNCHANGED <<scanVars, gateVars, todoVars, fnVars, schedVars>>

LoopNext ==
  \/ \E j \in Jobs : LoopStart(j)
  \/ \E j \in Jobs : LoopTweetsDone(j)
  \/ \E j \in Jobs, items \in ItemLists : LoopFeedsDone(j, items)
  \/ \E j \in Jobs, gate_awaits \in BOOLEAN : LoopExtractDone(j, gate_awaits)
  \/ \E j \in Jobs, ok \in BOOLEAN : LoopGateDone(j, ok)
  \/ LoopTick

LoopSpec == ScanInit /\ [][LoopNext]_vars

\* ---- claims about the event loop
\* job i has a step that is ready to run as soon as the loop gives it a turn
Resume(i) ==
  \/ LoopStart(i)
  \/ LoopTweetsDone(i)
  \/ \E ok \in BOOLEAN : LoopGateDone(i, ok)

\* C21: a job inside a long-running step (its fetch, its extraction call,
\* its delivery) never keeps another job from being scheduled: whenever job
\* j is in such a step, a job i that is waiting for its turn can take it.
C21_NoJobBlocksAnother ==
  \A j \in Jobs, i \in Jobs :
    (/\ i # j
     /\ scan[j].pc \in BlockingSteps \cup AwaitingSteps
     /\ scan[i].pc \in {"idle"} \cup AwaitingSteps)
      => ENABLED Resume(i)

(* ======================== concurrent sightings ======================== *)
\* C22: when non-forced calls for one project have made two alert attempts
\* (two jobs passed the existence check before either wrote), the store
\* still holds at most one row for the project, and exactly one, the row
\* written last, once both calls have returned.
C22_RaceAlertsTwiceOneRow ==
  \A n \in Names :
    plain[n].alerts >= 2 =>
      /\ Cardinality(RowsOf(table, n)) <= 1
      /\ Idle => /\ Cardinality(RowsOf(table, n)) = 1
                 /\ lastWrite[n] \in table

\* project B, not in the store at first: both jobs saw no row, both sent,
\* both have returned, one row is left
C22_Witness ==
  /\ Idle /\ Returned
  /\ last.name = <<"B">> /\ ~last.existed
  /\ Count(last.events, "send") = 1
  /\ plain[<<"B">>].calls = 2 /\ plain[<<"B">>].alerts = 2
  /\ Cardinality(RowsOf(table, <<"B">>)) = 1

(* ======================== the task manager ============================ *)
\* most rows the tasks table is let grow to
MaxTasks == 4
\* days the task manager's clock is followed for
TaskHorizon == 2

\* the frequency arguments add_task is called with
AddFrequencies == {-1, 2}

MarkTaskDone(task_id) ==
  /\ tasks' = mark_task_done(tasks, task_id, wall)
  /\ tcall' = [op |-> "mark", arg |-> task_id, at |-> wall, result |-> {}]
  /\ UNCHANGED <<todo, wall, daily>>
  /\ UNCHANGED <<gateVars, fnVars, scanVars, schedVars, loop_time>>

AddTask(frequency) ==
  /\ Len(tasks) < MaxTasks
  /\ tasks' = add_task(tasks, "Manual", "Added by hand", frequency)
  /\ tcall' = [op |-> "add", arg |-> Len(tasks) + 1, at |-> wall, result |-> {}]
  /\ UNCHANGED <<todo, wall, daily>>
  /\ UNCHANGED <<gateVars, fnVars, scanVars, schedVars, loop_time>>

CheckPending ==
  /\ tcall' = [op |-> "check", arg |-> 0, at |-> wall,
               result |-> check_pending_tasks(tasks, wall)]
  /\ UNCHANGED <<todo, tasks, wall, daily>>
  /\ UNCHANGED <<gateVars, fnVars, scanVars, schedVars, loop_time>>

\* a day passes
TaskTick ==
  /\ wall < TaskHorizon * DayMinutes
  /\ wall' = wall + DayMinutes
  /\ tcall' = NoTaskCall
  /\ UNCHANGED <<todo, tasks, daily>>
  /\ UNCHANGED <<gateVars, fnVars, scanVars, schedVars, loop_time>>

TaskInit ==
  /\ GateAtRest /\ TodoAtRest /\ FnAtRest /\ ScanAtRest /\ SchedAtRest
  /\ loop_time = 0

TaskNext ==
  \/ \E task_id \in 1..(MaxTasks + 1) : MarkTaskDone(task_id)
  \/ \E frequency \in AddFrequencies : AddTask(frequency)
  \/ CheckPending
  \/ \E store_ok \in BOOLEAN : TodoDispatch(store_ok)
  \/ TaskTick

TaskSpec == TaskInit /\ [][TaskNext]_vars

\* ---- claims about the task store
SevenDayTask(last_day) ==
  [TaskRow(1, "MetaMask", "Perform 1 Swap", 7)
     EXCEPT !.last_completed = IsoStamp(last_day * 1440)]

\* C23: check_pending_tasks lists a task iff last_completed is null or more
\* than frequency_days days lie between last_completed and now; exactly
\* frequency_days is not listed (frequency 7: 8 days is pending, 7 and 6 are
\* not).
C23_PendingIsStrictlyOverdue ==
  /\ tcall.op = "check" =>
       \A i \in 1..Len(tasks) :
         (tasks[i] \in tcall.result)
           <=> \/ tasks[i].last_completed.null
               \/ tcall.at - FromIso(tasks[i].last_completed)
                    > tasks[i].frequency_days * 1440
  /\ SevenDayTask(0) \in check_pending_tasks(<<SevenDayTask(0)>>, 8 * 1440)
  /\ SevenDayTask(0) \notin check_pending_tasks(<<SevenDayTask(0)>>, 7 * 1440)
  /\ SevenDayTask(1) \notin check_pending_tasks(<<SevenDayTask(1)>>, 7 * 1440)

\* the daily task, completed on day 0, checked on day 1 (exactly its
\* frequency: not listed) next to a task that was never completed (listed)
C23_Witness ==
  /\ tcall.op = "check" /\ tcall.at = 1440
  /\ ~tasks[2].last_completed.null /\ FromIso(tasks[2].last_completed) = 0
  /\ tasks[2] \notin tcall.result
  /\ tasks[3] \in tcall.result

RowOf(tbl, task_id) == { tbl[i] : i \in { k \in 1..Len(tbl) : tbl[k].id = task_id } }

\* C24: after mark_task_done(id) on an existing task, whatever its state
\* was, last_completed is the current time and the task is not pending at
\* that instant; it stays not pending until more than frequency_days days
\* have passed.
C24_DoneIsNotPending ==
  /\ tcall.op = "mark" =>
       \A row \in RowOf(tasks, tcall.arg) :
         /\ ~row.last_completed.null
         /\ FromIso(row.last_completed) = wall
         /\ row \notin check_pending_tasks(tasks, wall)
  /\ \A i \in 1..Len(tasks) :
       (/\ ~tasks[i].last_completed.null
        /\ wall - FromIso(tasks[i].last_completed) <= tasks[i].frequency_days * 1440)
         => tasks[i] \notin check_pending_tasks(tasks, wall)

\* C30: task rows are changed only by completion: check_pending_tasks and
\* send_daily_todo leave every row as it is, and mark_task_done(id) changes
\* last_completed of the row with that id and nothing else (nothing at all
\* when no row has the id); add_task only appends a row.
C30_OnlyCompletionChangesRows ==
  [][ /\ Len(tasks') >= Len(tasks)
      /\ tcall'.op \in {"check", "todo", "none"} => tasks' = tasks
      /\ tcall'.op = "add" => SubSeq(tasks', 1, Len(tasks)) = tasks
      /\ tcall'.op = "mark" =>
           /\ Len(tasks') = Len(tasks)
           /\ \A i \in 1..Len(tasks) :
                /\ tasks[i].id # tcall'.arg => tasks'[i] = tasks[i]
                /\ tasks'[i] = [tasks[i] EXCEPT
                                  !.last_completed = tasks'[i].last_completed]
    ]_vars

\* the daily task completed on day 1 while the weekly task keeps the
\* completion of day 0 and the third task is still never completed
C30_Witness ==
  /\ tcall.op = "mark" /\ tcall.arg = 2 /\ tcall.at = 1440
  /\ FromIso(tasks[2].last_completed) = 1440
  /\ ~tasks[1].last_completed.null /\ FromIso(tasks[1].last_completed) = 0
  /\ tasks[3].last_completed.null

\* C31: every task row in the store has frequency_days > 0, after any
\* sequence of init_task_db, add_task and mark_task_done calls with any
\* integer frequency argument.
C31_FrequencyIsPositive ==
  \A i \in 1..Len(tasks) : tasks[i].frequency_days > 0

(* ======================== the daily loop ============================== *)
\* lines 183-187: the target is 09:00 of the day of now, or of the next day
\* when now is not before it; the loop then sleeps for target - now
DailyCompute_strict ==
  /\ daily.pc = "compute"
  /\ LET now == wall
         target == (now \div DayMinutes) * DayMinutes + 9 * 60
     IN  daily' = [daily EXCEPT !.pc = "sleeping", !.now = now,
                     !.target = IF now > target THEN target + DayMinutes
                                                ELSE target]
  /\ UNCHANGED <<todo, tasks, wall, tcall>>
  /\ UNCHANGED <<gateVars, fnVars, scanVars, schedVars, loop_time>>
DailyCompute ==
  /\ daily.pc = "compute"
  /\ LET now == wall
         target == (now \div DayMinutes) * DayMinutes + 9 * 60
     IN  daily' = [daily EXCEPT !.pc = "sleeping", !.now = now,
                     !.target = IF now >= target THEN target + DayMinutes
                                                 ELSE target]
  /\ UNCHANGED <<todo, tasks, wall, tcall>>
  /\ UNCHANGED <<gateVars, fnVars, scanVars, schedVars, loop_time>>

\* dispatches the loop is followed for
MaxDispatches == 2

\* minutes by which asyncio.sleep may return after the target
Lateness == {0, 1}

\* asyncio.sleep returns, not before the target; send_daily_todo is called
DailyWake(late) ==
  /\ daily.pc = "sleeping"
  /\ daily.dispatches < MaxDispatches
  /\ wall' = daily.target + late
  /\ daily' = [daily EXCEPT !.pc = "dispatch", !.woke_at = daily.target + late]
  /\ todo' = NoTodo
  /\ UNCHANGED <<tasks, tcall>>
  /\ UNCHANGED <<gateVars, fnVars, scanVars, schedVars, loop_time>>

DailyDispatch(store_ok) ==
  /\ daily.pc = "dispatch"
  /\ todo.status = "none"
  /\ TodoDispatch(store_ok)

\* the send takes a minute
DailyDelay ==
  /\ daily.pc = "dispatch"
  /\ todo.pc = "send"
  /\ wall = daily.woke_at
  /\ wall' = wall + 1
  /\ UNCHANGED <<todo, tasks, tcall, daily>>
  /\ UNCHANGED <<gateVars, fnVars, scanVars, schedVars, loop_time>>

\* send_daily_todo has returned: the loop goes round (line 182)
DailyReturn ==
  /\ daily.pc = "dispatch"
  /\ todo.pc = "idle" /\ todo.status = "returned"
  /\ daily' = [daily EXCEPT !.pc = "compute", !.dispatches = @ + 1]
  /\ UNCHANGED <<todo, tasks, wall, tcall>>
  /\ UNCHANGED <<gateVars, fnVars, scanVars, schedVars, loop_time>>

\* send_daily_todo has raised: line 189 is inside no try statement, so the
\* exception leaves run_daily_scheduler
DailyAbort ==
  /\ daily.pc = "dispatch"
  /\ todo.pc = "idle" /\ todo.status = "raised"
  /\ daily' = [daily EXCEPT !.pc = "ended"]
  /\ UNCHANGED <<todo, tasks, wall, tcall>>
  /\ UNCHANGED <<gateVars, fnVars, scanVars, schedVars, loop_time>>

\* the minute of day 0 at which the loop is started: midnight, 08:59, 09:00,
\* 09:01 and 23:59
StartTimes == {0, 8 * 60 + 59, 9 * 60, 9 * 60 + 1, 23 * 60 + 59}

DailyInit ==
  /\ FnAtRest /\ ScanAtRest /\ SchedAtRest /\ loop_time = 0
  /\ table = {} /\ clock = 0 /\ env \in Envs
  /\ pc = [j \in Jobs |-> "idle"] /\ cur = [j \in Jobs |-> NoCall]
  /\ last = NoCall
  /\ plain = [n \in Names |-> [calls |-> 0, alerts |-> 0]]
  /\ lastWrite = [n \in Names |-> NoRow]
  /\ todo = NoTodo /\ tasks = SeededTasks /\ tcall = NoTaskCall
  /\ wall \in StartTimes
  /\ daily = [NoDaily EXCEPT !.pc = "compute"]

DailyNext ==
  \/ DailyCompute
  \/ \E late \in Lateness : DailyWake(late)
  \/ \E store_ok \in BOOLEAN : DailyDispatch(store_ok)
  \/ DailyDelay
  \/ \E outcome \in SendOutcomes : TodoSendDone(outcome)
  \/ \E ok \in BOOLEAN : TodoCloseDone(ok)
  \/ DailyReturn
  \/ DailyAbort

DailySpec == DailyInit /\ [][DailyNext]_vars

\* ---- claims about the daily loop
\* C25: the wake-up target is today's 09:00 when now is before 09:00 and
\* tomorrow's otherwise (09:00 sharp included), so the sleep is more than 0
\* and at most 24 hours; after a dispatch made at or after 09:00 the next
\* target is 09:00 of the following day.
C25_NextNineOClock ==
  daily.pc = "sleeping" =>
    LET minute == daily.now % 1440
        day    == daily.now \div 1440
    IN  /\ minute < 540 => daily.target = day * 1440 + 540
        /\ minute >= 540 => daily.target = (day + 1) * 1440 + 540
        /\ daily.target - daily.now > 0
        /\ daily.target - daily.now <= 1440
        /\ (daily.dispatches > 0 /\ daily.woke_at % 1440 >= 540)
             => daily.target = ((daily.woke_at \div 1440) + 1) * 1440 + 540

\* woken at 09:00 sharp, dispatched within the minute: the next target is
\* tomorrow's 09:00, a full day away
C25_Witness ==
  /\ daily.pc = "sleeping" /\ daily.dispatches = 1
  /\ daily.now % 1440 = 540 /\ daily.woke_at = daily.now
  /\ daily.target = daily.now + 1440

\* C26: no failure inside a dispatch (reading the store, constructing the
\* bot, sending, closing the session) ends the reminder loop.
C26_LoopSurvivesDispatchFailure ==
  daily.pc # "ended"

(* ======================== JSON recovery =============================== *)
WhiteSpace == {" ", "\n", "\t", "\r"}

\* the backquote character, written as a token of its own
BackQuote == "tick"

\* str.strip(chars) / str.strip()
StripOf(str, chars) ==
  LET keep == { i \in 1..Len(str) : str[i] \notin chars }
  IN  IF keep = {} THEN << >>
      ELSE SubSeq(str, CHOOSE i \in keep : \A k \in keep : i <= k,
                       CHOOSE i \in keep : \A k \in keep : i >= k)

StartsWith(str, prefix) ==
  Len(str) >= Len(prefix) /\ SubSeq(str, 1, Len(prefix)) = prefix

\* str.find(c) and str.rfind(c), with 0 for "not found" (Python's -1)
Find(str, c) ==
  LET at == { i \in 1..Len(str) : str[i] = c }
  IN  IF at = {} THEN 0 ELSE CHOOSE i \in at : \A k \in at : i <= k
RFind(str, c) ==
  LET at == { i \in 1..Len(str) : str[i] = c }
  IN  IF at = {} THEN 0 ELSE CHOOSE i \in at : \A k \in at : i >= k

\* lines 120-124: the code fence and the word json after it are dropped
Unfenced(model_text) ==
  LET cleaned == StripOf(model_text, WhiteSpace)
  IN  IF StartsWith(cleaned, <<BackQuote, BackQuote, BackQuote>>)
        THEN LET inner == StripOf(StripOf(cleaned, {BackQuote}), WhiteSpace)
             IN  IF StartsWith(CaseFold(inner), <<"j", "s", "o", "n">>)
                   THEN StripOf(SubSeq(inner, 5, Len(inner)), WhiteSpace)
                   ELSE inner
        ELSE cleaned

\* lines 127-132: the text from the first "{" to the last "}"
_extract_json_text_fence_only(model_text) == Unfenced(model_text)
_extract_json_text(model_text) ==
  LET cleaned == Unfenced(model_text)
      start   == Find(cleaned, "{")
      end     == RFind(cleaned, "}")
  IN  IF start # 0 /\ end # 0 /\ end >= start
        THEN SubSeq(cleaned, start, end)
        ELSE cleaned

\* json.loads on texts made of objects, arrays and strings without escapes.
\* A value is [t |-> "str" | "list" | "obj", v |-> ...]; an object is a dict
\* of its members, a repeated key keeping its last value.
ParseFail == [ok |-> FALSE, pos |-> 0, t |-> "none", v |-> << >>]
Parsed(t, v, pos) == [ok |-> TRUE, pos |-> pos, t |-> t, v |-> v]
ValueOf(r) == [t |-> r.t, v |-> r.v]

SkipWs(str, i) ==
  LET rest == { k \in i..Len(str) : str[k] \notin WhiteSpace }
  IN  IF rest = {} THEN Len(str) + 1
      ELSE CHOOSE k \in rest : \A m \in rest : k <= m

CharAt(str, i) == IF i >= 1 /\ i <= Len(str) THEN str[i] ELSE "end"

ParseString(str, i) ==
  LET closing == { k \in (i + 1)..Len(str) : str[k] = "\"" }
  IN  IF CharAt(str, i) # "\"" \/ closing = {} THEN ParseFail
      ELSE LET j == CHOOSE k \in closing : \A m \in closing : k <= m
           IN  Parsed("str", SubSeq(str, i + 1, j - 1), j + 1)

RECURSIVE ParseValue(_, _), ParseElements(_, _, _), ParseMembers(_, _, _)
ParseValue(str, from) ==
  LET i == SkipWs(str, from)
  IN  IF CharAt(str, i) = "\"" THEN ParseString(str, i)
      ELSE IF CharAt(str, i) = "["
        THEN IF CharAt(str, SkipWs(str, i + 1)) = "]"
               THEN Parsed("list", << >>, SkipWs(str, i + 1) + 1)
               ELSE ParseElements(str, i + 1, << >>)
      ELSE IF CharAt(str, i) = "{"
        THEN IF CharAt(str, SkipWs(str, i + 1)) = "}"
               THEN Parsed("obj", << >>, SkipWs(str, i + 1) + 1)
               ELSE ParseMembers(str, i + 1, << >>)
      ELSE ParseFail

ParseElements(str, from, acc) ==
  LET item == ParseValue(str, from)
      next == SkipWs(str, item.pos)
  IN  IF ~item.ok THEN ParseFail
      ELSE IF CharAt(str, next) = ","
        THEN ParseElements(str, next + 1, Append(acc, ValueOf(item)))
      ELSE IF CharAt(str, next) = "]"
        THEN Parsed("list", Append(acc, ValueOf(item)), next + 1)
      ELSE ParseFail

ParseMembers(str, from, acc) ==
  LET key   == ParseString(str, SkipWs(str, from))
      colon == SkipWs(str, key.pos)
      item  == ParseValue(str, colon + 1)
      next  == SkipWs(str, item.pos)
  IN  IF ~key.ok \/ CharAt(str, colon) # ":" THEN ParseFail
      ELSE IF ~item.ok THEN ParseFail
      ELSE IF CharAt(str, next) = ","
        THEN ParseMembers(str, next + 1, DictPut(acc, key.v, ValueOf(item)))
      ELSE IF CharAt(str, next) = "}"
        THEN Parsed("obj", DictPut(acc, key.v, ValueOf(item)), next + 1)
      ELSE ParseFail

json_loads(text) ==
  LET r == ParseValue(text, 1)
  IN  IF r.ok /\ SkipWs(text, r.pos) > Len(text) THEN r ELSE ParseFail

\* payload.get(key) when it is of the wanted type, the default otherwise
GetTyped(payload, key, t) ==
  IF DictHas(payload, key) /\ DictGet(payload, key).t = t
    THEN DictGet(payload, key).v
    ELSE << >>

\* lines 97-111 on a parsed object (the items of an investors list are
\* strings): each item stripped, the empty ones dropped
_coerce_extraction(payload) ==
  LET investors == GetTyped(payload, <<"i", "n", "v", "e", "s", "t", "o", "r", "s">>, "list")
      stripped == [i \in 1..Len(investors) |-> StripOf(investors[i].v, WhiteSpace)]
  IN  [project   |-> StripOf(GetTyped(payload, <<"p", "r", "o", "j", "e", "c", "t">>, "str"),
                            WhiteSpace),
       action    |-> StripOf(GetTyped(payload, <<"a", "c", "t", "i", "o", "n">>, "str"),
                            WhiteSpace),
       investors |-> SelectSeq(stripped, LAMBDA item : item # << >>)]

\* lines 167-168 / 196-197: extract the text, parse it, coerce the object;
\* a text that does not parse, or parses to something that is not an
\* object, raises
ParseReply(model_text) ==
  LET text   == _extract_json_text(model_text)
      parsed == json_loads(text)
  IN  [text   |-> text,
       ok     |-> parsed.ok /\ parsed.t = "obj",
       record |-> IF parsed.ok /\ parsed.t = "obj"
                    THEN _coerce_extraction(parsed.v)
                    ELSE [project |-> << >>, action |-> << >>,
                          investors |-> << >>]]

\* ---- model replies: a JSON object, bare, fenced or inside prose
ObjectTexts ==
  << <<"{", "\"", "p", "r", "o", "j", "e", "c", "t", "\"", ":", "\"", "F",
      "o", "o", "\"", ",", "\"", "a", "c", "t", "i", "o", "n", "\"", ":",
      "\"", "B", "a", "r", "\"", ",", "\"", "i", "n", "v", "e", "s", "t",
      "o", "r", "s", "\"", ":", "[", "\"", "P", "a", "r", "a", "d", "i", "g",
      "m", "\"", "]", "}">>,
    <<"{", " ", "\"", "p", "r", "o", "j", "e", "c", "t", "\"", ":", " ",
      "\"", " ", "F", "o", "o", " ", "\"", ",", "\n", " ", "\"", "a", "c",
      "t", "i", "o", "n", "\"", ":", " ", "\"", "B", "a", "r", "\"", ",",
      "\n", " ", "\"", "i", "n", "v", "e", "s", "t", "o", "r", "s", "\"",
      ":", " ", "[", "\"", "P", "a", "r", "a", "d", "i", "g", "m", "\"", ",",
      " ", "\"", " ", "\"", ",", " ", "\"", "O", "K", "X", " ", "V", "e",
      "n", "t", "u", "r", "e", "s", "\"", "]", " ", "}">>,
    <<"{", "\"", "p", "r", "o", "j", "e", "c", "t", "\"", ":", "\"", "F",
      "o", "o", "\"", ",", "\"", "a", "c", "t", "i", "o", "n", "\"", ":",
      "\"", "B", "a", "r", "\"", ",", "\"", "i", "n", "v", "e", "s", "t",
      "o", "r", "s", "\"", ":", "[", "]", ",", "\"", "m", "e", "t", "a",
      "\"", ":", "{", "\"", "t", "i", "e", "r", "\"", ":", "\"", "o", "n",
      "e", "\"", "}", "}">>,
    <<"{", "\"", "p", "r", "o", "j", "e", "c", "t", "\"", ":", "[", "\"",
      "F", "o", "o", "\"", "]", ",", "\"", "i", "n", "v", "e", "s", "t", "o",
      "r", "s", "\"", ":", "\"", "P", "a", "r", "a", "d", "i", "g", "m",
      "\"", "}">> >>

Prefixes ==
  << << >>,
    <<BackQuote, BackQuote, BackQuote, "j", "s", "o", "n", "\n">>,
    <<" ", BackQuote, BackQuote, BackQuote, "J", "S", "O", "N", "\n">>,
    <<BackQuote, BackQuote, BackQuote, "\n">>,
    <<"H", "e", "r", "e", " ", "i", "s", " ", "t", "h", "e", " ", "J", "S",
      "O", "N", " ", "y", "o", "u", " ", "a", "s", "k", "e", "d", " ", "f",
      "o", "r", ":", "\n">> >>

Suffixes ==
  << << >>,
    <<"\n", BackQuote, BackQuote, BackQuote>>,
    <<"\n", BackQuote, BackQuote, BackQuote, "\n", " ">>,
    <<"\n", "L", "e", "t", " ", "m", "e", " ", "k", "n", "o", "w", " ", "i",
      "f", " ", "y", "o", "u", " ", "n", "e", "e", "d", " ", "m", "o", "r",
      "e", ".">> >>

ReplyInputs ==
  [kind : {"reply"},
   prefix : { Prefixes[i] : i \in 1..Len(Prefixes) },
   object : { ObjectTexts[i] : i \in 1..Len(ObjectTexts) },
   suffix : { Suffixes[i] : i \in 1..Len(Suffixes) }]

ReplyText(in) == in.prefix \o in.object \o in.suffix

ReplyInit ==
  /\ GateAtRest /\ TodoAtRest /\ ScanAtRest /\ SchedAtRest /\ loop_time = 0
  /\ inp \in ReplyInputs
  /\ out = [kind |-> "none"]

ReplyApply ==
  /\ inp.kind = "reply" /\ out.kind = "none"
  /\ out' = [kind |-> "reply"] @@ ParseReply(ReplyText(inp))
  /\ UNCHANGED <<inp, gateVars, todoVars, scanVars, schedVars, loop_time>>

ReplyNext == ReplyApply

ReplySpec == ReplyInit /\ [][ReplyNext]_vars

\* ---- claims about JSON recovery
\* C27: for a reply that wraps a JSON object in a code fence or in prose,
\* _extract_json_text returns the text from the first "{" to the last "}"
\* of the reply, which is the object; the fenced reply
\* {"project":"Foo","action":"Bar","investors":["Paradigm"]} gives project
\* Foo, action Bar, investors [Paradigm].
C27_FencedJsonIsRecovered ==
  out.kind = "reply" =>
    LET reply == ReplyText(inp)
        first == CHOOSE i \in 1..Len(reply) :
                   reply[i] = "{" /\ \A k \in 1..(i - 1) : reply[k] # "{"
        final == CHOOSE i \in 1..Len(reply) :
                   reply[i] = "}" /\ \A k \in (i + 1)..Len(reply) : reply[k] # "}"
    IN  /\ out.text = SubSeq(reply, first, final)
        /\ out.text = inp.object
        /\ out.ok
        /\ inp.object = ObjectTexts[1] =>
             /\ out.record.project = <<"F", "o", "o">>
             /\ out.record.action = <<"B", "a", "r">>
             /\ out.record.investors = << <<"P", "a", "r", "a", "d", "i", "g", "m">> >>

\* the claim's object inside a ```json fence
C27_Witness ==
  /\ out.kind = "reply"
  /\ inp.prefix = Prefixes[2] /\ inp.suffix = Suffixes[2] /\ inp.object = ObjectTexts[1]
  /\ out.record.project = <<"F", "o", "o">>
  /\ Len(out.record.investors) = 1

(* ======================== immediate opportunities ===================== *)
\* x_scraper.IMMEDIATE_TOKEN_KEYWORDS
IMMEDIATE_TOKEN_KEYWORDS == {
    <<"c", "l", "a", "i", "m", " ", "n", "o", "w">>,
    <<"c", "l", "a", "i", "m", " ", "l", "i", "v", "e">>,
    <<"t", "o", "k", "e", "n", " ", "l", "i", "v", "e">>,
    <<"t", "g", "e", " ", "l", "i", "v", "e">>,
    <<"a", "i", "r", "d", "r", "o", "p", " ", "l", "i", "v", "e">>,
    <<"m", "i", "n", "t", " ", "l", "i", "v", "e">>,
    <<"i", "n", "s", "t", "a", "n", "t", " ", "r", "e", "w", "a", "r", "d">>,
    <<"r", "e", "d", "e", "e", "m", " ", "n", "o", "w">> }

Contains(text, part) ==
  \E i \in 1..(Len(text) - Len(part) + 1) :
    SubSeq(text, i, i + Len(part) - 1) = part

\* any(keyword in text.lower() for keyword in IMMEDIATE_TOKEN_KEYWORDS)
_is_immediate_token_opportunity(text) ==
  \E keyword \in IMMEDIATE_TOKEN_KEYWORDS : Contains(CaseFold(text), keyword)

\* scheduler.run_scan line 95: the candidate's flag is the item's hint
RunScanImmediate(item, extracted) == item.immediate_hint

\* x_scraper._process_item line 195: the hint or a keyword in the action
ProcessItemImmediate(item, extracted) ==
  item.immediate_hint \/ _is_immediate_token_opportunity(extracted.action)

\* ---- action texts an extraction can hold
ActionTexts ==
  { <<"c", "l", "a", "i", "m", " ", "n", "o", "w">>,
    <<"C", "l", "a", "i", "m", " ", "N", "o", "w", " ", "t", "o", "d", "a",
      "y">>,
    <<"G", "o", " ", "C", "L", "A", "I", "M", " ", "N", "O", "W", "!">>,
    <<"c", "l", "a", "i", "m", " ", "l", "i", "v", "e">>,
    <<"C", "l", "a", "i", "m", " ", "L", "i", "v", "e", " ", "t", "o", "d",
      "a", "y">>,
    <<"G", "o", " ", "C", "L", "A", "I", "M", " ", "L", "I", "V", "E", "!">>,
    <<"t", "o", "k", "e", "n", " ", "l", "i", "v", "e">>,
    <<"T", "o", "k", "e", "n", " ", "L", "i", "v", "e", " ", "t", "o", "d",
      "a", "y">>,
    <<"G", "o", " ", "T", "O", "K", "E", "N", " ", "L", "I", "V", "E", "!">>,
    <<"t", "g", "e", " ", "l", "i", "v", "e">>,
    <<"T", "g", "e", " ", "L", "i", "v", "e", " ", "t", "o", "d", "a", "y">>,
    <<"G", "o", " ", "T", "G", "E", " ", "L", "I", "V", "E", "!">>,
    <<"a", "i", "r", "d", "r", "o", "p", " ", "l", "i", "v", "e">>,
    <<"A", "i", "r", "d", "r", "o", "p", " ", "L", "i", "v", "e", " ", "t",
      "o", "d", "a", "y">>,
    <<"G", "o", " ", "A", "I", "R", "D", "R", "O", "P", " ", "L", "I", "V",
      "E", "!">>,
    <<"m", "i", "n", "t", " ", "l", "i", "v", "e">>,
    <<"M", "i", "n", "t", " ", "L", "i", "v", "e", " ", "t", "o", "d", "a",
      "y">>,
    <<"G", "o", " ", "M", "I", "N", "T", " ", "L", "I", "V", "E", "!">>,
    <<"i", "n", "s", "t", "a", "n", "t", " ", "r", "e", "w", "a", "r", "d">>,
    <<"I", "n", "s", "t", "a", "n", "t", " ", "R", "e", "w", "a", "r", "d",
      " ", "t", "o", "d", "a", "y">>,
    <<"G", "o", " ", "I", "N", "S", "T", "A", "N", "T", " ", "R", "E", "W",
      "A", "R", "D", "!">>,
    <<"r", "e", "d", "e", "e", "m", " ", "n", "o", "w">>,
    <<"R", "e", "d", "e", "e", "m", " ", "N", "o", "w", " ", "t", "o", "d",
      "a", "y">>,
    <<"G", "o", " ", "R", "E", "D", "E", "E", "M", " ", "N", "O", "W", "!">>,
    << >>,
    <<"S", "t", "a", "k", "e", " ", "E", "T", "H", " ", "f", "o", "r", " ",
      "p", "o", "i", "n", "t", "s">>,
    <<"c", "l", "a", "i", "m">>,
    <<"c", "l", "a", "i", "m", "n", "o", "w">>,
    <<"c", "l", "a", "i", "m", " ", " ", "n", "o", "w">>,
    <<"l", "i", "v", "e", " ", "t", "o", "k", "e", "n">>,
    <<"R", "e", "d", "e", "e", "m", " ", "l", "a", "t", "e", "r">>,
    <<"M", "i", "n", "t", " ", "i", "s", " ", "n", "o", "t", " ", "o", "p",
      "e", "n">>,
    <<"t", "o", "k", "e", "n", " ", " ", "l", "i", "v", "e">>,
    <<"B", "r", "i", "d", "g", "e", " ", "a", "n", "d", " ", "s", "w", "a",
      "p">> }

CandidateInputs ==
  [kind : {"candidate"}, builder : {"run_scan", "_process_item"},
   immediate_hint : BOOLEAN, action : ActionTexts]

CandidateInit ==
  /\ GateAtRest /\ TodoAtRest /\ ScanAtRest /\ SchedAtRest /\ loop_time = 0
  /\ inp \in CandidateInputs
  /\ out = [kind |-> "none"]

\* the project_data dict handed to process_and_notify, its flag alone
BuildCandidate ==
  /\ inp.kind = "candidate" /\ out.kind = "none"
  /\ LET item      == [immediate_hint |-> inp.immediate_hint]
         extracted == [action |-> inp.action]
     IN  out' = [kind |-> "candidate",
                 immediate_token |->
                   IF inp.builder = "run_scan"
                     THEN RunScanImmediate(item, extracted)
                     ELSE ProcessItemImmediate(item, extracted)]
  /\ UNCHANGED <<inp, gateVars, todoVars, scanVars, schedVars, loop_time>>

CandidateNext == BuildCandidate

CandidateSpec == CandidateInit /\ [][CandidateNext]_vars

\* C29: the candidate run_scan hands to the gate has immediate_token true
\* exactly when the item's own hint is true or the extracted action text
\* holds an immediate-opportunity keyword.
C29_ImmediateIsHintOrKeyword ==
  (out.kind = "candidate" /\ inp.builder = "run_scan")
    => (out.immediate_token <=>
          (inp.immediate_hint \/ _is_immediate_token_opportunity(inp.action)))

(* ======================== suppressed sightings ======================== *)
\* C32: a sighting suppressed for score < 8 leaves no row, so a project
\* whose earlier sightings were all suppressed is still unseen and its first
\* later sighting with score >= 8, or with the immediate flag, makes an
\* alert attempt; only a sighting that reached delivery writes a row.
C32_SuppressedIsNotSeen ==
  (Returned /\ NonBlank /\ ~last.data.force_send)
    => /\ (~last.existed /\ AlertAttempts(last.events) = 0)
            => last.after = last.before
       /\ (~last.existed /\ (last.data.score >= 8 \/ last.data.immediate_token))
            => AlertAttempts(last.events) >= 1
       /\ last.after # last.before => AlertAttempts(last.events) >= 1

====
